---- MODULE Spec2Model ----
(***************************************************************************)
(* Foundation reconciliation engine of Player-Eligibility-Flask:           *)
(* processing_utils.py (normalisation, club matching, update_summary_file) *)
(* and sports_clubs.py (the request handlers around it).                   *)
(*                                                                         *)
(* Text is a sequence of one-character strings, so that the conversions    *)
(* (strip, upper, int parsing, regex matching) are computed and not        *)
(* assumed.  Money is an integer number of cents.  A date is <<y, m, d>>.  *)
(***************************************************************************)
EXTENDS Integers, Sequences, FiniteSets, TLC

VARIABLES
    refIn, refOut,                      \* normalize_jrnl_ref: argument, result
    designation_text, club_names_from_summary, matched_club,
                                        \* find_matching_club_sheet: arguments, result
    ledger,                 \* the data rows of the uploaded DRS report
    donor,                  \* the rows of the uploaded donor report
    transactions_by_ref,    \* update_summary_file: the lines grouped by reference
    workbook,               \* the summary workbook: Summary rows and the other sheets
    results,                \* update_summary_file: the counters it returns
    store,                  \* the foundation_transactions table
    today,                  \* date.today()
    flash,                  \* the messages the latest request flashed
    runs,                   \* reconciliation runs so far
    session,                \* the session: last_summary_temp_filename
    upload_folder,          \* the files in instance/uploads_temp
    drs_df_raw,             \* the rows of the DRS sheet as read, below the header row
    drs_lines,              \* the lines that the scan of the DRS rows keeps
    writers                 \* requests that update the temporary file, step by step

normVars  == <<refIn, refOut>>
matchVars == <<designation_text, club_names_from_summary, matched_club>>
runVars   == <<ledger, donor, transactions_by_ref, workbook, results, store, today, flash, runs,
               session, upload_folder>>
sideVars  == <<drs_df_raw, drs_lines, writers>>
vars      == <<normVars, matchVars, runVars, sideVars>>

(***************************************************************************)
(* Characters                                                              *)
(***************************************************************************)
LowerChars == <<"a","b","c","d","e","f","g","h","i","j","k","l","m",
                "n","o","p","q","r","s","t","u","v","w","x","y","z">>
UpperChars == <<"A","B","C","D","E","F","G","H","I","J","K","L","M",
                "N","O","P","Q","R","S","T","U","V","W","X","Y","Z">>
DigitChars == <<"0","1","2","3","4","5","6","7","8","9">>

Range(s) == {s[i] : i \in DOMAIN s}

LowerSet == Range(LowerChars)
UpperSet == Range(UpperChars)
DigitSet == Range(DigitChars)
UpperOfLower == [c \in LowerSet |-> UpperChars[CHOOSE i \in DOMAIN LowerChars : LowerChars[i] = c]]
LowerOfUpper == [c \in UpperSet |-> LowerChars[CHOOSE i \in DOMAIN UpperChars : UpperChars[i] = c]]

IsDigit(c) == c \in DigitSet
IsSpace(c) == c = " "

\* str.upper() / str.lower() on one character
UpperChar(c) == IF c \in LowerSet THEN UpperOfLower[c] ELSE c
LowerChar(c) == IF c \in UpperSet THEN LowerOfUpper[c] ELSE c

Upper(s) == [i \in DOMAIN s |-> UpperChar(s[i])]
Lower(s) == [i \in DOMAIN s |-> LowerChar(s[i])]

\* str.strip(): leading and trailing whitespace removed
RECURSIVE LStrip(_)
LStrip(s) == IF s # <<>> /\ IsSpace(Head(s)) THEN LStrip(Tail(s)) ELSE s
RECURSIVE RStrip(_)
RStrip(s) ==
    IF s # <<>> /\ IsSpace(s[Len(s)]) THEN RStrip(SubSeq(s, 1, Len(s) - 1)) ELSE s
Strip(s) == LStrip(RStrip(s))

\* every string of at most n characters of the alphabet A
RECURSIVE StringsUpTo(_, _)
StringsUpTo(A, n) ==
    IF n = 0 THEN {<<>>}
    ELSE LET shorter == StringsUpTo(A, n - 1)
         IN  shorter \cup {Append(s, c) : s \in shorter, c \in A}

(***************************************************************************)
(* normalize_jrnl_ref                                                      *)
(***************************************************************************)
\* Python's None
PyNone == <<"None">>
\* a result that has not been computed yet
Pending == <<"pending">>

\* int(s) accepts: optional whitespace, an optional sign, digits (single
\* underscores between digits), optional whitespace
RECURSIVE IsDigitRun(_)
IsDigitRun(s) ==
    \/ Len(s) = 1 /\ IsDigit(s[1])
    \/ /\ Len(s) >= 2
       /\ IsDigit(s[1])
       /\ IF s[2] = "_" THEN Len(s) >= 3 /\ IsDigitRun(SubSeq(s, 3, Len(s)))
                        ELSE IsDigitRun(Tail(s))
HasSign(s) == s # <<>> /\ Head(s) \in {"+", "-"}
Unsigned(s) == IF HasSign(s) THEN Tail(s) ELSE s
IsIntLiteral(s) == LET t == Strip(s) IN Unsigned(t) # <<>> /\ IsDigitRun(Unsigned(t))

\* str(int(s)): the digits without underscores and leading zeros, "-" kept
\* for a negative number other than zero
RECURSIVE DropLeadingZeros(_)
DropLeadingZeros(s) ==
    IF Len(s) > 1 /\ Head(s) = "0" THEN DropLeadingZeros(Tail(s)) ELSE s
IntToStr(s) ==
    LET t      == Strip(s)
        digits == DropLeadingZeros(SelectSeq(Unsigned(t), IsDigit))
    IN  IF HasSign(t) /\ Head(t) = "-" /\ digits # <<"0">>
        THEN <<"-">> \o digits
        ELSE digits

\* a reference that swaps the case of letters instead of upper-casing them
normalize_jrnl_ref_swapcase(ref) ==
    IF ref = PyNone THEN PyNone
    ELSE LET ref_str == Strip(ref)
         IN  IF IsIntLiteral(ref_str) THEN IntToStr(ref_str)
             ELSE [i \in DOMAIN ref_str |->
                     IF UpperChar(ref_str[i]) = ref_str[i]
                     THEN LowerChar(ref_str[i]) ELSE UpperChar(ref_str[i])]

normalize_jrnl_ref(ref) ==
    IF ref = PyNone THEN PyNone
    ELSE LET ref_str == Strip(ref)
         IN  IF IsIntLiteral(ref_str) THEN IntToStr(ref_str) ELSE Upper(ref_str)

(***************************************************************************)
(* normalize_text_for_matching                                             *)
(***************************************************************************)
\* \w and \s of the regular expressions; everything else is punctuation
WordChars == LowerSet \cup UpperSet \cup DigitSet \cup {"_"}
IsWordChar(c) == c \in WordChars
IsPunct(c) == ~IsWordChar(c) /\ ~IsSpace(c)
\* the characters text.replace(...) deletes: the apostrophe (the double quote
\* and the back quote are deleted the same way; no alphabet used here has them)
IsQuote(c) == c = "'"
NotQuote(c) == ~IsQuote(c)

\* re.sub(r'[^\w\s]+', ' ', text): every run of punctuation becomes one space
RECURSIVE SubPunctRuns(_)
SubPunctRuns(s) ==
    IF s = <<>> THEN <<>>
    ELSE IF IsPunct(Head(s))
         THEN IF Len(s) >= 2 /\ IsPunct(s[2])
              THEN SubPunctRuns(Tail(s))
              ELSE <<" ">> \o SubPunctRuns(Tail(s))
         ELSE <<Head(s)>> \o SubPunctRuns(Tail(s))

\* re.sub(r'\s+', ' ', text): every run of whitespace becomes one space
RECURSIVE SubSpaceRuns(_)
SubSpaceRuns(s) ==
    IF s = <<>> THEN <<>>
    ELSE IF IsSpace(Head(s))
         THEN IF Len(s) >= 2 /\ IsSpace(s[2])
              THEN SubSpaceRuns(Tail(s))
              ELSE <<" ">> \o SubSpaceRuns(Tail(s))
         ELSE <<Head(s)>> \o SubSpaceRuns(Tail(s))

normalize_text_for_matching(text) ==
    IF text = PyNone \/ text = <<>> THEN <<>>
    ELSE Strip(SubSpaceRuns(SubPunctRuns(SelectSeq(Lower(text), NotQuote))))

(***************************************************************************)
(* find_matching_club_sheet                                                *)
(***************************************************************************)
\* \b at offset p of text (between text[p] and text[p+1])
WordBoundary(text, p) ==
    LET before == p >= 1 /\ IsWordChar(text[p])
        after  == p + 1 <= Len(text) /\ IsWordChar(text[p + 1])
    IN  before # after

\* re.search(r'\b' + re.escape(name) + r'\b', text)
WholeWordSearch(name, text) ==
    \E i \in 0 .. (Len(text) - Len(name)) :
        /\ SubSeq(text, i + 1, i + Len(name)) = name
        /\ WordBoundary(text, i)
        /\ WordBoundary(text, i + Len(name))

\* normalize_text_for_matching of every club of the list
RECURSIVE NormAll(_)
NormAll(clubs) ==
    IF clubs = <<>> THEN <<>>
    ELSE <<normalize_text_for_matching(Head(clubs))>> \o NormAll(Tail(clubs))

\* the dict {normalize_text_for_matching(c): c for c in clubs}: its keys in
\* order of first insertion, each with the last club that has that key
RECURSIVE DictKeys(_)
DictKeys(norms) ==
    IF norms = <<>> THEN <<>>
    ELSE LET rest == DictKeys(SubSeq(norms, 1, Len(norms) - 1))
             key  == norms[Len(norms)]
         IN  IF key \in Range(rest) THEN rest ELSE Append(rest, key)
DictValue(clubs, norms, key) ==
    clubs[CHOOSE i \in DOMAIN clubs :
            /\ norms[i] = key
            /\ \A j \in DOMAIN clubs : norms[j] = key => j <= i]

\* list.sort(key=match_len, reverse=True): stable, longest first
RECURSIVE InsertByLenDesc(_, _)
InsertByLenDesc(sorted, m) ==
    IF sorted = <<>> THEN <<m>>
    ELSE IF Head(sorted).match_len >= m.match_len
         THEN <<Head(sorted)>> \o InsertByLenDesc(Tail(sorted), m)
         ELSE <<m>> \o sorted
RECURSIVE SortByLenDesc(_)
SortByLenDesc(ms) ==
    IF ms = <<>> THEN <<>>
    ELSE InsertByLenDesc(SortByLenDesc(SubSeq(ms, 1, Len(ms) - 1)), ms[Len(ms)])

\* the potential_matches list, in dict order
RECURSIVE MatchRecords(_, _, _)
MatchRecords(clubs, norms, hits) ==
    IF hits = <<>> THEN <<>>
    ELSE <<[name |-> DictValue(clubs, norms, Head(hits)), match_len |-> Len(Head(hits))]>>
         \o MatchRecords(clubs, norms, Tail(hits))
PotentialMatches(normalized_designation, clubs) ==
    LET norms == NormAll(clubs)
        hit(k) == WholeWordSearch(k, normalized_designation)
    IN  MatchRecords(clubs, norms, SelectSeq(DictKeys(norms), hit))

\* the candidate list is used as built, the first candidate wins
find_matching_club_sheet_first(designation, clubs) ==
    IF designation = PyNone \/ designation = <<>> THEN PyNone
    ELSE LET nd == normalize_text_for_matching(designation)
             pm == PotentialMatches(nd, clubs)
         IN  IF nd = <<>> \/ pm = <<>> THEN PyNone ELSE pm[1].name

\* the candidate list is sorted shortest first
find_matching_club_sheet_shortest(designation, clubs) ==
    IF designation = PyNone \/ designation = <<>> THEN PyNone
    ELSE LET nd == normalize_text_for_matching(designation)
             pm == PotentialMatches(nd, clubs)
             shortest == CHOOSE i \in DOMAIN pm :
                            \A j \in DOMAIN pm : pm[i].match_len <= pm[j].match_len
         IN  IF nd = <<>> \/ pm = <<>> THEN PyNone ELSE pm[shortest].name

find_matching_club_sheet(designation, clubs) ==
    IF designation = PyNone \/ designation = <<>> THEN PyNone
    ELSE
    LET normalized_designation == normalize_text_for_matching(designation)
        potential_matches == PotentialMatches(normalized_designation, clubs)
        sorted == SortByLenDesc(potential_matches)
        isExact(m) == normalize_text_for_matching(m.name) = normalized_designation
        exact_match_original_names == SelectSeq(sorted, isExact)
    IN  IF normalized_designation = <<>> THEN PyNone
        ELSE IF potential_matches = <<>> THEN PyNone
        ELSE IF Len(potential_matches) = 1 THEN potential_matches[1].name
        ELSE IF sorted[1].match_len > sorted[2].match_len THEN sorted[1].name
        ELSE IF Len(exact_match_original_names) = 1
             THEN exact_match_original_names[1].name
        ELSE PyNone

(***************************************************************************)
(* Specification of normalize_jrnl_ref on its own                          *)
(***************************************************************************)
MaxRefLen == 3
RefAlphabet == {"0", "7", "a", "A", " ", "-"}
RefStrings == StringsUpTo(RefAlphabet, MaxRefLen) \cup {PyNone}

\* The variables of the scan of the DRS sheet and of the requests in progress,
\* at rest.
NotScanned == [scanned |-> FALSE, lines |-> <<>>]
SideIdle ==
    /\ drs_df_raw = <<>>
    /\ drs_lines = NotScanned
    /\ writers = <<>>

\* The variables of the reconciliation run, at rest in the specifications of
\* the pure functions.
RunIdle ==
    /\ SideIdle
    /\ ledger = <<>>
    /\ donor = <<>>
    /\ transactions_by_ref = <<>>
    /\ workbook = <<>>
    /\ results = <<>>
    /\ store = <<>>
    /\ today = <<>>
    /\ flash = <<>>
    /\ runs = 0
    /\ session = <<>>
    /\ upload_folder = {}

NormInit ==
    /\ refIn \in RefStrings
    /\ refOut = Pending
    /\ designation_text = PyNone
    /\ club_names_from_summary = <<>>
    /\ matched_club = Pending
    /\ RunIdle

NormalizeRef ==
    /\ refOut = Pending
    /\ refOut' = normalize_jrnl_ref(refIn)
    /\ UNCHANGED <<refIn, matchVars, runVars, sideVars>>

SpecNormalize == NormInit /\ [][NormalizeRef]_vars

\* C2: normalising a normalised reference changes nothing
C2_NormalizeIdempotent ==
    refOut # Pending => normalize_jrnl_ref(refOut) = refOut

C2_Witness ==
    /\ refIn = <<" ", "0", "7">>
    /\ refOut = <<"7">>

(***************************************************************************)
(* Specification of find_matching_club_sheet on its own                    *)
(***************************************************************************)
MaxTextLen == 4
MaxClubs == 3
TextAlphabet == {"a", "b", "A", "-", " "}
\* club names as the Summary sheet may list them: two differ only in case
\* and punctuation, two have the same length, three share words
ClubPool == { <<"a">>, <<"A", "'", "-">>, <<"b">>, <<"a", "b">>,
              <<"a", " ", "a", "b">> }

\* the lists of at most n different clubs of the pool
RECURSIVE ClubListsUpTo(_)
ClubListsUpTo(n) ==
    IF n = 0 THEN {<<>>}
    ELSE LET shorter == ClubListsUpTo(n - 1)
         IN  shorter \cup {Append(l, c) : l \in shorter, c \in ClubPool}
ClubLists == {l \in ClubListsUpTo(MaxClubs) :
                \A i, j \in DOMAIN l : l[i] = l[j] => i = j}

MatchInit ==
    /\ designation_text \in StringsUpTo(TextAlphabet, MaxTextLen) \cup {PyNone}
    /\ club_names_from_summary \in ClubLists
    /\ matched_club = Pending
    /\ refIn = PyNone
    /\ refOut = Pending
    /\ RunIdle

MatchClub ==
    /\ matched_club = Pending
    /\ matched_club' = find_matching_club_sheet(designation_text, club_names_from_summary)
    /\ UNCHANGED <<designation_text, club_names_from_summary, normVars, runVars,
                   sideVars>>

SpecMatch == MatchInit /\ [][MatchClub]_vars

NormDesignation == normalize_text_for_matching(designation_text)
NormClubs == NormAll(club_names_from_summary)
\* club i is a candidate: its normalised name nc[i] is a whole-word part of
\* the normalised designation nd
IsCandidate(nc, nd, i) == WholeWordSearch(nc[i], nd)
IsStrictPrefix(s, t) == Len(s) < Len(t) /\ SubSeq(t, 1, Len(s)) = s

\* C6: a designation equal, after normalisation, to the normalised name of a
\* club of the list resolves to a club of the list with that normalised name
C6_ExactNameResolves ==
    LET nd == NormDesignation
        nc == NormClubs
    IN  (/\ matched_club # Pending
         /\ \E i \in DOMAIN nc : nc[i] = nd)
        => /\ matched_club \in Range(club_names_from_summary)
           /\ normalize_text_for_matching(matched_club) = nd

C6_Witness ==
    /\ designation_text = <<"-", "A", "b">>
    /\ club_names_from_summary = <<<<"a">>, <<"a", "b">>, <<"b">>>>
    /\ matched_club = <<"a", "b">>

\* C7 as stated: of two candidates, one a strict prefix of the other, the
\* longer is returned whatever else is in the list
C7_LongerOfPrefixPairAlways ==
    LET nd == NormDesignation
        nc == NormClubs
    IN  matched_club # Pending =>
        \A i, j \in DOMAIN nc :
            (IsStrictPrefix(nc[i], nc[j]) /\ IsCandidate(nc, nd, i) /\ IsCandidate(nc, nd, j))
            => matched_club = club_names_from_summary[j]

\* C7 as amended: the shorter of the two is never returned, and the longer is
\* returned when no other candidate has a normalised name at least as long
C7_LongerOfPrefixPair ==
    LET nd == NormDesignation
        nc == NormClubs
    IN  matched_club # Pending =>
        \A i, j \in DOMAIN nc :
            (IsStrictPrefix(nc[i], nc[j]) /\ IsCandidate(nc, nd, i) /\ IsCandidate(nc, nd, j))
            => /\ matched_club # club_names_from_summary[i]
               /\ (\A k \in DOMAIN nc \ {i, j} :
                      IsCandidate(nc, nd, k) => Len(nc[k]) < Len(nc[j]))
                  => matched_club = club_names_from_summary[j]

C7_Witness ==
    /\ designation_text = <<"a", " ", "a", "b">>
    /\ club_names_from_summary = <<<<"a">>, <<"a", "b">>>>
    /\ matched_club = <<"a", "b">>

\* the resolver of the four rules, over the clubs of the list
ReferenceResolver ==
    LET nd     == NormDesignation
        nc     == NormClubs
        cands  == {i \in DOMAIN nc : IsCandidate(nc, nd, i)}
        tied   == {i \in cands : \A j \in cands : Len(nc[j]) <= Len(nc[i])}
        exact  == {i \in tied : nc[i] = nd}
    IN  IF nd = <<>> \/ cands = {} THEN PyNone
        ELSE IF Cardinality(tied) = 1
             THEN club_names_from_summary[CHOOSE i \in tied : TRUE]
        ELSE IF Cardinality(exact) = 1
             THEN club_names_from_summary[CHOOSE i \in exact : TRUE]
        ELSE PyNone

\* C8: the result is the reference resolver's
C8_EqualsReferenceResolver ==
    matched_club # Pending => matched_club = ReferenceResolver

\* the same, over lists whose normalised names are pairwise different
C8_EqualsReferenceOnDistinctNames ==
    LET nc == NormClubs
    IN  (/\ matched_club # Pending
         /\ \A i, j \in DOMAIN nc : nc[i] = nc[j] => i = j)
        => matched_club = ReferenceResolver

(***************************************************************************)
(* update_summary_file: the donor report and the rows of the DRS report    *)
(*                                                                         *)
(* A date is <<year, month, day>>.  An amount is a whole number of cents.  *)
(* A DRS data row is given by what lines 318-361 read from it: the raw     *)
(* reference found in it (PyNone when none is found), the line type of the *)
(* section it stands in, the credit or debit amount of that type, and the  *)
(* post date.  A donor row is one that dropna keeps: reference, date and   *)
(* designation text are all present.                                       *)
(***************************************************************************)
DateLE(a, b) ==
    \/ a[1] < b[1]
    \/ a[1] = b[1] /\ a[2] < b[2]
    \/ a[1] = b[1] /\ a[2] = b[2] /\ a[3] <= b[3]

NoDate == <<>>

\* a window without a first day
min_donor_date_open(donor_rows) == <<0, 1, 1>>

\* min(donor_dates), max(donor_dates): NoDate when the report has no row
min_donor_date(donor_rows) ==
    IF donor_rows = <<>> THEN NoDate
    ELSE LET i == CHOOSE i \in DOMAIN donor_rows :
                    \A j \in DOMAIN donor_rows : DateLE(donor_rows[i].date, donor_rows[j].date)
         IN  donor_rows[i].date

max_donor_date(donor_rows) ==
    IF donor_rows = <<>> THEN NoDate
    ELSE LET i == CHOOSE i \in DOMAIN donor_rows :
                    \A j \in DOMAIN donor_rows : DateLE(donor_rows[j].date, donor_rows[i].date)
         IN  donor_rows[i].date

\* jrnl_to_designation.get(normalized_ref): the designation of the first donor
\* row with that normalised reference, PyNone when there is none
jrnl_to_designation(donor_rows, normalized_ref) ==
    LET hits == {i \in DOMAIN donor_rows :
                    normalize_jrnl_ref(donor_rows[i].ref) = normalized_ref}
    IN  IF normalized_ref = <<>> \/ hits = {} THEN PyNone
        ELSE Strip(donor_rows[CHOOSE i \in hits : \A j \in hits : i <= j].designation)

\* the place of a normalised reference among the keys of transactions_by_ref,
\* 0 when it is not a key
KeyIndex(txns, normalized_ref) ==
    IF \E i \in DOMAIN txns : txns[i].nref = normalized_ref
    THEN CHOOSE i \in DOMAIN txns : txns[i].nref = normalized_ref
    ELSE 0

\* one turn of the loop over the DRS data rows, for the key the row's
\* reference has in transactions_by_ref; acc holds transactions_by_ref (in
\* insertion order) and the skipped_date_range counter
ScanRowKeyed(acc, row, donor_rows, normalized_jrnl_ref, k) ==
    IF /\ donor_rows # <<>>
       /\ ~(/\ DateLE(min_donor_date(donor_rows), row.date)
            /\ DateLE(row.date, max_donor_date(donor_rows)))
    THEN IF row.ref # PyNone /\ row.ref # <<>> /\ k = 0
         THEN [acc EXCEPT !.skipped = @ + 1]
         ELSE acc
    ELSE IF row.ref = PyNone \/ row.ref = <<>> THEN acc
    ELSE IF normalized_jrnl_ref = <<>> THEN acc
    ELSE IF row.type \notin {"Contribution", "Fee"} THEN acc
    ELSE IF row.amount = 0 THEN acc
    ELSE IF k = 0
         THEN [acc EXCEPT !.txns = Append(@,
                  [nref |-> normalized_jrnl_ref, date |-> row.date,
                   raw_jrnl_ref |-> row.ref,
                   lines |-> <<[type |-> row.type, amount |-> row.amount]>>,
                   designation |-> jrnl_to_designation(donor_rows, normalized_jrnl_ref)])]
    ELSE [acc EXCEPT !.txns[k].lines = Append(@, [type |-> row.type, amount |-> row.amount])]

\* the key of a row: its normalised reference
RowKey_raw(row) == row.ref

RowKey(row) == normalize_jrnl_ref(row.ref)

ScanRowAt(acc, row, donor_rows, normalized_jrnl_ref) ==
    ScanRowKeyed(acc, row, donor_rows, normalized_jrnl_ref,
                 KeyIndex(acc.txns, normalized_jrnl_ref))

ScanRow(acc, row, donor_rows) == ScanRowAt(acc, row, donor_rows, RowKey(row))

RECURSIVE ScanRows(_, _, _)
ScanRows(acc, rows, donor_rows) ==
    IF rows = <<>> THEN acc
    ELSE ScanRows(ScanRow(acc, Head(rows), donor_rows), Tail(rows), donor_rows)

\* Steps 1 and 5: transactions_by_ref and the skipped counter of a run
ReadReports(drs_rows, donor_rows) ==
    ScanRows([txns |-> <<>>, skipped |-> 0], drs_rows, donor_rows)

\* sum(line['amount'] for line in lines if line['type'] == line_type)
RECURSIVE SumOfType(_, _)
SumOfType(lines, line_type) ==
    IF lines = <<>> THEN 0
    ELSE (IF Head(lines).type = line_type THEN Head(lines).amount ELSE 0)
         + SumOfType(Tail(lines), line_type)

total_contribution(data) == SumOfType(data.lines, "Contribution")
total_fees(data) == SumOfType(data.lines, "Fee")
\* the net amount without the fees taken off
net_amount_gross(data) == total_contribution(data)
net_amount(data) == total_contribution(data) - total_fees(data)

(***************************************************************************)
(* Specification of the aggregation of the DRS rows on its own             *)
(***************************************************************************)
MaxAggLines == 3
June30 == <<2, 6, 30>>
July1 == <<2, 7, 1>>
\* DRS data rows: one reference in two spellings and another one, both line
\* types, a zero and a non-zero amount, two post dates
AggRowPool ==
    [ref : {<<"0", "7">>, <<"7">>, <<"a", "7">>}, type : {"Contribution", "Fee"},
     amount : {0, 500}, date : {June30, July1}]
\* donor reports: an empty one, and one whose only date is July 1
AggDonors ==
    { <<>>, <<[ref |-> <<"7">>, date |-> July1, designation |-> <<"a">>]>> }

AggInit ==
    /\ ledger \in StringsUpTo(AggRowPool, MaxAggLines)
    /\ donor \in AggDonors
    /\ transactions_by_ref = <<>>
    /\ runs = 0
    /\ workbook = <<>> /\ results = <<>> /\ store = <<>> /\ today = <<>> /\ flash = <<>>
    /\ session = <<>> /\ upload_folder = {}
    /\ SideIdle
    /\ refIn = PyNone /\ refOut = Pending
    /\ designation_text = PyNone /\ club_names_from_summary = <<>> /\ matched_club = Pending

Aggregate ==
    /\ runs = 0
    /\ runs' = 1
    /\ transactions_by_ref' = ReadReports(ledger, donor).txns
    /\ UNCHANGED <<ledger, donor, workbook, results, store, today, flash, session,
                   upload_folder, normVars, matchVars, sideVars>>

SpecAgg == AggInit /\ [][Aggregate]_vars

\* the rows of the ledger that are extracted as lines: inside the date window
\* of the donor report, with a non-zero amount
InWindow(d) ==
    donor = <<>> \/ \E i, j \in DOMAIN donor :
                        DateLE(donor[i].date, d) /\ DateLE(d, donor[j].date)
ExtractedRows == {i \in DOMAIN ledger : InWindow(ledger[i].date) /\ ledger[i].amount # 0}
RowsOf(normalized_ref, line_type) ==
    {i \in ExtractedRows : /\ normalize_jrnl_ref(ledger[i].ref) = normalized_ref
                           /\ ledger[i].type = line_type}
RECURSIVE AmountOfRows(_)
AmountOfRows(S) ==
    IF S = {} THEN 0
    ELSE LET i == CHOOSE i \in S : TRUE IN ledger[i].amount + AmountOfRows(S \ {i})

\* C1: one aggregated transaction per distinct normalised reference of the
\* extracted lines, whose total contribution and total fees are the sums of
\* the amounts of the Contribution lines and of the Fee lines of that
\* reference
C1_OneAggregatePerReference ==
    runs = 1 =>
        LET refs == {normalize_jrnl_ref(ledger[i].ref) : i \in ExtractedRows}
        IN  /\ \A k \in DOMAIN transactions_by_ref : transactions_by_ref[k].nref \in refs
            /\ \A n \in refs :
                 /\ Cardinality({k \in DOMAIN transactions_by_ref :
                                    transactions_by_ref[k].nref = n}) = 1
                 /\ \A k \in DOMAIN transactions_by_ref :
                      transactions_by_ref[k].nref = n =>
                        /\ total_contribution(transactions_by_ref[k])
                             = AmountOfRows(RowsOf(n, "Contribution"))
                        /\ total_fees(transactions_by_ref[k]) = AmountOfRows(RowsOf(n, "Fee"))

\* two spellings of one reference, a contribution and a fee, in one aggregate
C1_Witness ==
    /\ runs = 1
    /\ Len(ledger) = 3
    /\ ledger[1].ref = <<"0", "7">> /\ ledger[2].ref = <<"7">> /\ ledger[3].ref = <<"a", "7">>
    /\ Len(transactions_by_ref) = 2
    /\ total_contribution(transactions_by_ref[1]) = 500
    /\ total_fees(transactions_by_ref[1]) = 500

(***************************************************************************)
(* update_summary_file: the workbook                                       *)
(*                                                                         *)
(* A workbook is [summary, sheets]: the rows of the Summary sheet below    *)
(* its header, and the data rows of every other sheet by title.  Every     *)
(* sheet has the header row the program gives it, so a row is a record of  *)
(* the columns the program reads again: date, type, ref (Journal Ref),     *)
(* contrib (Contribution Amount), charges (Charges/Offset), net (Net       *)
(* Amount) and last (Donation Use, or Original Designation in the          *)
(* Needs Review sheet).  Donor/Description, formats, column widths and the *)
(* order of the sheets are left out.                                       *)
(***************************************************************************)
SUMMARY_INDIVIDUAL_SHEET_NAME ==
    <<"S", "u", "m", "m", "a", "r", "y", " ", "I", "n", "d", "i", "v", "i", "d", "u", "a", "l">>
NEEDS_REVIEW_SHEET_NAME == <<"N", "e", "e", "d", "s", " ", "R", "e", "v", "i", "e", "w">>
GrandTotal == <<"g", "r", "a", "n", "d", " ", "t", "o", "t", "a", "l">>

\* a cell of the Summary sheet: a number, or blank
Num(v) == [kind |-> "num", v |-> v]
Blank == [kind |-> "blank", v |-> 0]

\* to_decimal of a cell: the number, 0.00 for a blank cell
to_decimal(value) == IF value.kind = "num" THEN value.v ELSE 0

\* re.sub(r'[\\/*?:\[\]]', '_', name)[:31]
SheetTitleLimit == 31
InvalidTitleChars == {"\\", "/", "*", "?", ":", "[", "]"}
safe_sheet_name(name) ==
    LET subbed == [i \in DOMAIN name |->
                      IF name[i] \in InvalidTitleChars THEN "_" ELSE name[i]]
    IN  SubSeq(subbed, 1, IF Len(name) < SheetTitleLimit THEN Len(name) ELSE SheetTitleLimit)

\* a Summary row that names a club: the cell is not empty and is not the
\* grand total
IsClubRow(summary_row) ==
    /\ summary_row.club # <<>>
    /\ Strip(summary_row.club) # <<>>
    /\ Lower(Strip(summary_row.club)) # GrandTotal

RECURSIVE clubs_from_summary(_)
clubs_from_summary(summary) ==
    IF summary = <<>> THEN <<>>
    ELSE IF IsClubRow(Head(summary))
         THEN <<Strip(Head(summary).club)>> \o clubs_from_summary(Tail(summary))
         ELSE clubs_from_summary(Tail(summary))

\* "Ensure sheets exist": a missing sheet is created with its header only
RECURSIVE EnsureSheets(_, _)
EnsureSheets(sheets, names) ==
    IF names = <<>> THEN sheets
    ELSE LET title == safe_sheet_name(Head(names))
         IN  EnsureSheets(IF title \in DOMAIN sheets THEN sheets
                          ELSE (title :> <<>>) @@ sheets,
                          Tail(names))

\* the normalised references read from the database
existing_refs_db_normalized(db) == {normalize_jrnl_ref(db[i].journal_ref) : i \in DOMAIN db}

\* the row written for an aggregated transaction
excel_data_dict(data, last) ==
    [date    |-> data.date,
     type    |-> IF total_contribution(data) > 0 THEN "Contribution" ELSE "Fee/Expense",
     ref     |-> data.raw_jrnl_ref,
     contrib |-> total_contribution(data),
     charges |-> total_fees(data),
     net     |-> net_amount(data),
     last    |-> last]

db_model_data(data, matched_club_name, status) ==
    [transaction_date     |-> data.date,
     journal_ref          |-> data.raw_jrnl_ref,
     original_designation |-> data.designation,
     gross_amount         |-> total_contribution(data),
     fees_total           |-> total_fees(data),
     net_amount           |-> net_amount(data),
     assigned_club_name   |-> matched_club_name,
     club_id              |-> PyNone,
     status               |-> status]

\* every aggregated transaction headed for the Needs Review sheet
target_sheet_name_review(sheets, matched_club_name) == NEEDS_REVIEW_SHEET_NAME

\* the sheet an aggregated transaction is headed for
target_sheet_name(sheets, matched_club_name) ==
    IF matched_club_name # PyNone /\ safe_sheet_name(matched_club_name) \in DOMAIN sheets
    THEN safe_sheet_name(matched_club_name)
    ELSE NEEDS_REVIEW_SHEET_NAME

\* the duplicate check of Step 6, comparing the cells as they are
jrnl_exists_in_sheet_raw(rows, normalized_jrnl_ref) ==
    \E r \in DOMAIN rows : rows[r].ref = normalized_jrnl_ref

\* the duplicate check of Step 6, looking at the last row only
jrnl_exists_in_sheet_last(rows, normalized_jrnl_ref) ==
    rows # <<>> /\ normalize_jrnl_ref(rows[Len(rows)].ref) = normalized_jrnl_ref

\* the duplicate check of Step 6: a data row of the target sheet whose
\* Journal Ref cell normalises to the reference
jrnl_exists_in_sheet(rows, normalized_jrnl_ref) ==
    \E r \in DOMAIN rows : normalize_jrnl_ref(rows[r].ref) = normalized_jrnl_ref

\* one turn of the loop of Step 6, from the duplicate check on; acc holds the
\* sheets, the counters, the records for the database and the rows for the
\* Summary Individual sheet
MergeInto(acc, data, db_refs, matched_club_name, target, is_needs_review) ==
    IF jrnl_exists_in_sheet(acc.sheets[target], data.nref)
    THEN [acc EXCEPT !.results.duplicates_sheet = @ + 1]
    ELSE [sheets  |-> [acc.sheets EXCEPT ![target] =
                          Append(@, excel_data_dict(data,
                                     IF target = NEEDS_REVIEW_SHEET_NAME
                                     THEN data.designation ELSE matched_club_name))],
          results |-> [acc.results EXCEPT
                          !.needs_review = IF is_needs_review THEN @ + 1 ELSE @,
                          !.processed = @ + 1],
          new_db  |-> IF data.nref \in db_refs THEN acc.new_db
                      ELSE Append(acc.new_db,
                                  db_model_data(data, matched_club_name,
                                                IF is_needs_review THEN "needs_review"
                                                ELSE "reconciled")),
          si      |-> IF target = NEEDS_REVIEW_SHEET_NAME THEN acc.si
                      ELSE Append(acc.si, excel_data_dict(data, matched_club_name))]

\* one turn of the loop of Step 6, after the club has been matched
MergeMatched(acc, data, db_refs, matched_club_name) ==
    MergeInto(acc, data, db_refs, matched_club_name,
              target_sheet_name(acc.sheets, matched_club_name),
              ~(/\ matched_club_name # PyNone
                /\ safe_sheet_name(matched_club_name) \in DOMAIN acc.sheets))

MergeOne(acc, data, clubs, db_refs) ==
    MergeMatched(acc, data, db_refs, find_matching_club_sheet(data.designation, clubs))

RECURSIVE MergeAll(_, _, _, _)
MergeAll(acc, txns, clubs, db_refs) ==
    IF txns = <<>> THEN acc
    ELSE MergeAll(MergeOne(acc, Head(txns), clubs, db_refs), Tail(txns), clubs, db_refs)

\* the order of Python strings: by code point, a prefix first
CharOrder ==
    <<" ", "'", "-">> \o DigitChars \o UpperChars \o <<"_">> \o LowerChars
CharCode(c) == CHOOSE i \in DOMAIN CharOrder : CharOrder[i] = c
RECURSIVE StrLE(_, _)
StrLE(a, b) ==
    IF a = <<>> THEN TRUE
    ELSE IF b = <<>> THEN FALSE
    ELSE IF Head(a) = Head(b) THEN StrLE(Tail(a), Tail(b))
    ELSE CharCode(Head(a)) < CharCode(Head(b))

\* the sort key of the Summary Individual rows: (Date, Donation Use)
SortKeyLE(r1, r2) ==
    \/ r1.date # r2.date /\ DateLE(r1.date, r2.date)
    \/ r1.date = r2.date /\ StrLE(r1.last, r2.last)

\* list.sort: stable, ascending
RECURSIVE InsertByKey(_, _)
InsertByKey(sorted, row) ==
    IF sorted = <<>> THEN <<row>>
    ELSE IF SortKeyLE(Head(sorted), row)
         THEN <<Head(sorted)>> \o InsertByKey(Tail(sorted), row)
         ELSE <<row>> \o sorted
RECURSIVE SortByKey(_)
SortByKey(rows) ==
    IF rows = <<>> THEN <<>>
    ELSE InsertByKey(SortByKey(SubSeq(rows, 1, Len(rows) - 1)), rows[Len(rows)])

\* date(today.year if today.month >= 7 else today.year - 1, 7, 1), with the
\* month compared wrongly
current_fiscal_year_start_late(today_date) ==
    <<IF today_date[2] > 7 THEN today_date[1] ELSE today_date[1] - 1, 7, 1>>

\* date(today.year if today.month >= 7 else today.year - 1, 7, 1)
current_fiscal_year_start(today_date) ==
    <<IF today_date[2] >= 7 THEN today_date[1] ELSE today_date[1] - 1, 7, 1>>

\* the sum of a column over the rows of a club sheet dated in the fiscal year
RECURSIVE FiscalSum(_, _, _)
FiscalSum(rows, column, start) ==
    IF rows = <<>> THEN 0
    ELSE (IF DateLE(start, Head(rows).date) THEN Head(rows)[column] ELSE 0)
         + FiscalSum(Tail(rows), column, start)

\* Step 7 for one Summary row
RecalculateRow(summary_row, sheets, start) ==
    IF ~IsClubRow(summary_row) THEN summary_row
    ELSE LET title == safe_sheet_name(Strip(summary_row.club))
             rows == IF title \in DOMAIN sheets THEN sheets[title] ELSE <<>>
             fy_contrib_total == FiscalSum(rows, "contrib", start)
             fy_charges_total == FiscalSum(rows, "charges", start)
             rollover_val == to_decimal(summary_row.rollover)
             expenses_val == to_decimal(summary_row.expenses)
         IN  [summary_row EXCEPT
                 !.contrib = Num(fy_contrib_total),
                 !.charges = Num(fy_charges_total),
                 !.expenses = Num(expenses_val),
                 !.remaining = Num(rollover_val + fy_contrib_total
                                   - fy_charges_total - expenses_val)]

RecalculateSummary(summary, sheets, today_date) ==
    [i \in DOMAIN summary |->
        RecalculateRow(summary[i], sheets, current_fiscal_year_start(today_date))]

NoResults ==
    [processed |-> 0, needs_review |-> 0, duplicates_db |-> 0, duplicates_sheet |-> 0,
     skipped_date_range |-> 0, errors |-> <<>>]

\* "Populate Summary Individual Sheet": cleared, then the rows of this run
RebuildSummaryIndividual(merged) ==
    [merged EXCEPT !.sheets[SUMMARY_INDIVIDUAL_SHEET_NAME] = SortByKey(merged.si)]

\* Steps 7 to 10: what update_summary_file hands back
RunResult(summary, merged, txns, today_date) ==
    [workbook |-> [summary |-> RecalculateSummary(summary, merged.sheets, today_date),
                   sheets  |-> merged.sheets],
     results  |-> merged.results,
     new_transactions_for_db |-> merged.new_db,
     transactions_by_ref |-> txns]

\* Steps 2 (the sheets), 6 and on, for the reports as read
MergeReports(summary_file, read, clubs, db, today_date) ==
    RunResult(summary_file.summary,
              RebuildSummaryIndividual(
                  MergeAll([sheets  |-> EnsureSheets(summary_file.sheets,
                                            clubs \o <<NEEDS_REVIEW_SHEET_NAME,
                                                       SUMMARY_INDIVIDUAL_SHEET_NAME>>),
                            results |-> [NoResults EXCEPT
                                            !.skipped_date_range = read.skipped],
                            new_db  |-> <<>>,
                            si      |-> <<>>],
                           read.txns, clubs, existing_refs_db_normalized(db))),
              read.txns, today_date)

\* update_summary_file on readable reports and a well-formed summary file:
\* the updated workbook, the counters, the records for the database and
\* transactions_by_ref
update_summary_file(drs_rows, donor_rows, summary_file, db, today_date) ==
    MergeReports(summary_file, ReadReports(drs_rows, donor_rows),
                 clubs_from_summary(summary_file.summary), db, today_date)

(***************************************************************************)
(* _update_temp_summary_after_review                                       *)
(***************************************************************************)
ClubSuffix == <<" ", "c", "l", "u", "b">>

\* the largest data row of the Needs Review sheet whose Journal Ref cell
\* equals the reference, 0 when there is none
row_to_delete(rows, journal_ref) ==
    LET hits == {r \in DOMAIN rows : rows[r].ref = journal_ref}
    IN  IF hits = {} THEN 0 ELSE CHOOSE r \in hits : \A q \in hits : q <= r

DeleteRow(rows, r) ==
    IF r = 0 THEN rows ELSE SubSeq(rows, 1, r - 1) \o SubSeq(rows, r + 1, Len(rows))

\* the title of the sheet the reviewed transaction is added to
safe_club_sheet_name(club_name) ==
    LET safe == safe_sheet_name(club_name)
        n == Len(safe)
    IN  IF n >= Len(ClubSuffix) /\ Lower(SubSeq(safe, n - Len(ClubSuffix) + 1, n)) = ClubSuffix
        THEN Strip(SubSeq(safe, 1, n - Len(ClubSuffix)))
        ELSE safe

row_data(reviewed_transaction, club_name) ==
    [date    |-> reviewed_transaction.transaction_date,
     type    |-> IF reviewed_transaction.gross_amount > 0 THEN "Contribution" ELSE "Fee/Expense",
     ref     |-> reviewed_transaction.journal_ref,
     contrib |-> reviewed_transaction.gross_amount,
     charges |-> reviewed_transaction.fees_total,
     net     |-> reviewed_transaction.net_amount,
     last    |-> club_name]

\* the Summary Individual rows after the review: the first row with the
\* reference gets the club, or the row is appended
UpdateSummaryIndividual(rows, reviewed_transaction, club_name) ==
    LET hits == {r \in DOMAIN rows : rows[r].ref = reviewed_transaction.journal_ref}
    IN  IF hits = {} THEN Append(rows, row_data(reviewed_transaction, club_name))
        ELSE [rows EXCEPT ![CHOOSE r \in hits : \A q \in hits : r <= q].last = club_name]

\* Step 4 for one Summary row: like Step 7 of the run, but the expenses cell
\* is left as it is
ReviewRecalculateRow(summary_row, sheets, start) ==
    IF ~IsClubRow(summary_row) THEN summary_row
    ELSE LET title == safe_sheet_name(Strip(summary_row.club))
             rows == IF title \in DOMAIN sheets THEN sheets[title] ELSE <<>>
             fy_contributions == FiscalSum(rows, "contrib", start)
             fy_charges_offsets == FiscalSum(rows, "charges", start)
         IN  [summary_row EXCEPT
                 !.contrib = Num(fy_contributions),
                 !.charges = Num(fy_charges_offsets),
                 !.remaining = Num(to_decimal(summary_row.rollover) + fy_contributions
                                   - fy_charges_offsets - to_decimal(summary_row.expenses))]

\* Step 1: the row is removed from the Needs Review sheet
RemoveFromNeedsReview(sheets, journal_ref) ==
    IF NEEDS_REVIEW_SHEET_NAME \in DOMAIN sheets
    THEN [sheets EXCEPT ![NEEDS_REVIEW_SHEET_NAME] =
             DeleteRow(@, row_to_delete(@, journal_ref))]
    ELSE sheets

\* Step 2: the row is added to the sheet of the club, created if missing
AddToClubSheet(sheets, title, new_row) ==
    IF title \in DOMAIN sheets
    THEN [sheets EXCEPT ![title] = Append(@, new_row)]
    ELSE (title :> <<new_row>>) @@ sheets

\* Step 3
UpdateIndividualSheet(sheets, reviewed_transaction, club_name) ==
    IF SUMMARY_INDIVIDUAL_SHEET_NAME \in DOMAIN sheets
    THEN [sheets EXCEPT ![SUMMARY_INDIVIDUAL_SHEET_NAME] =
             UpdateSummaryIndividual(@, reviewed_transaction, club_name)]
    ELSE sheets

\* Steps 4 and 5
ReviewRecalculate(summary, sheets, today_date) ==
    [summary |-> [i \in DOMAIN summary |->
                    ReviewRecalculateRow(summary[i], sheets,
                                         current_fiscal_year_start(today_date))],
     sheets  |-> sheets]

\* the workbook of the temporary file after the review of a transaction
update_temp_summary_after_review(wb, reviewed_transaction, club_name, today_date) ==
    ReviewRecalculate(wb.summary,
        UpdateIndividualSheet(
            AddToClubSheet(
                RemoveFromNeedsReview(wb.sheets, reviewed_transaction.journal_ref),
                safe_club_sheet_name(club_name),
                row_data(reviewed_transaction, club_name)),
            reviewed_transaction, club_name),
        today_date)

(***************************************************************************)
(* Specification of the reconciliation workflow: runs of the merger        *)
(* (foundation_reconciliation with update_summary_file), reviews           *)
(* (foundation_review) and the passing of time.  The summary file          *)
(* uploaded to a run is the workbook as the latest run and the reviews     *)
(* after it left it, at first the workbook of Init; the reports are        *)
(* readable and the database commits succeed.                              *)
(***************************************************************************)
MaxLines == 2
MaxRuns == 2

JudoClub == <<"J", "u", "d", "o", " ", "C", "l", "u", "b">>
Golf == <<"G", "o", "l", "f">>
Polo == <<" ", "P", "o", "l", "o">>

\* the clubs table of the database
ClubTable == {JudoClub, Golf}

\* DRS data rows: reference 7 in two spellings and reference a7, both line
\* types, post dates on both sides of the start of the fiscal year
RowPool ==
    { [ref |-> <<"0", "7">>, type |-> "Contribution", amount |-> 10000, date |-> July1],
      [ref |-> <<"7">>,      type |-> "Fee",          amount |-> 500,   date |-> June30],
      [ref |-> <<"a", "7">>, type |-> "Contribution", amount |-> 5000,  date |-> June30] }

\* donor reports: an empty one; one with a designation that no club matches
\* and one for Golf; one that gives both references to the Judo Club and
\* names reference 7 twice; one dated July 1 only
DonorPool ==
    { <<>>,
      <<[ref |-> <<"7">>, date |-> June30, designation |-> Polo],
        [ref |-> <<"a", "7">>, date |-> July1, designation |-> Golf]>>,
      <<[ref |-> <<"0", "7">>, date |-> June30, designation |-> JudoClub],
        [ref |-> <<"a", "7">>, date |-> July1, designation |-> JudoClub],
        [ref |-> <<"7">>, date |-> July1, designation |-> Golf]>>,
      <<[ref |-> <<"a", "7">>, date |-> July1, designation |-> JudoClub]>> }

\* the days on which requests are made, in order: both are in the fiscal
\* year that starts on July1
Todays == << <<2, 7, 1>>, <<3, 6, 30>> >>

\* the summary file of the first upload: two clubs and the grand total row,
\* no sheet but Summary
FirstSummaryFile ==
    [summary |-> << [club |-> JudoClub, rollover |-> Num(1000), contrib |-> Blank,
                     charges |-> Blank, expenses |-> Num(200), remaining |-> Blank],
                    [club |-> Golf, rollover |-> Blank, contrib |-> Blank,
                     charges |-> Blank, expenses |-> Blank, remaining |-> Blank],
                    [club |-> <<"G", "r", "a", "n", "d", " ", "T", "o", "t", "a", "l">>,
                     rollover |-> Blank, contrib |-> Blank, charges |-> Blank,
                     expenses |-> Blank, remaining |-> Blank] >>,
     sheets  |-> <<>>]

\* summary_output_<uuid>.xlsx, the name of the temporary file of a run
TempFilename == <<"summary_output">>

\* the session after session.pop of its keys
PoppedSession == [last_summary_temp_filename |-> PyNone, last_results |-> <<>>]

Init ==
    /\ ledger = <<>>
    /\ donor = <<>>
    /\ transactions_by_ref = <<>>
    /\ workbook = FirstSummaryFile
    /\ results = NoResults
    /\ store = <<>>
    /\ today = Todays[1]
    /\ flash = <<>>
    /\ runs = 0
    /\ session = PoppedSession
    /\ upload_folder = {}
    /\ SideIdle
    /\ refIn = PyNone /\ refOut = Pending
    /\ designation_text = PyNone /\ club_names_from_summary = <<>> /\ matched_club = Pending

\* An uploaded DRS report: whether a row holds the four column headers, and
\* the data rows below it
DrsFile(rows) == [header |-> TRUE, rows |-> rows]
DrsWithoutHeader == [header |-> FALSE, rows |-> <<>>]

\* An uploaded donor report: whether it has the sheet 'College or Unit
\* Acknowledgement', and the rows of that sheet
DonorFile(rows) == [sheet |-> TRUE, rows |-> rows]
DonorWithoutSheet == [sheet |-> FALSE, rows |-> <<>>]

\* An uploaded summary file: whether it has the sheet 'Summary', whether a
\* row of that sheet holds the six column headers, and the workbook
SummaryFile(wb) == [summary_sheet |-> TRUE, headers |-> TRUE, wb |-> wb]
SummaryWithoutSheet(wb) == [summary_sheet |-> FALSE, headers |-> FALSE, wb |-> wb]
SummaryWithoutHeaders(wb) == [summary_sheet |-> TRUE, headers |-> FALSE, wb |-> wb]

\* output_buffer = None
NoBuffer == [summary |-> <<>>, sheets |-> <<>>]

\* "return None, results" after results['errors'].append, and the return
\* after one of the exception handlers at the end
ProcessingError(error_msg) ==
    [workbook |-> NoBuffer,
     results  |-> [NoResults EXCEPT !.errors = <<error_msg>>],
     new_transactions_for_db |-> <<>>,
     transactions_by_ref |-> <<>>]

\* Step 1: an exception while the donor report is read leaves the map of
\* designations and the list of dates empty, and the run goes on
read_donor_report(donor_file) == IF donor_file.sheet THEN donor_file.rows ELSE <<>>

\* Step 2 raises: no Summary sheet, no header row, no club below it
summary_file_rejected(summary_file) ==
    \/ ~summary_file.summary_sheet
    \/ ~summary_file.headers
    \/ clubs_from_summary(summary_file.wb.summary) = <<>>

\* update_summary_file on the three uploaded files
update_summary_file_paths(drs_file, donor_file, summary_file, db, today_date) ==
    IF summary_file_rejected(summary_file)
    THEN ProcessingError("Error reading/preparing existing Summary file")
    ELSE IF ~drs_file.header
    THEN ProcessingError("Could not find header row in DRS Report.")
    ELSE update_summary_file(drs_file.rows, read_donor_report(donor_file),
                             summary_file.wb, db, today_date)

\* what can go wrong in a request, one at a time: a file field left empty,
\* a file name that is not .xlsx, an exception in one of the three
\* file.save calls, an exception inside update_summary_file, an IOError
\* while the temporary file is written, an OSError while the folder of the
\* temporary files is made, an exception in the commit, an exception while
\* the temporary file is loaded or saved again
SaveFaults == {"save drs", "save donor", "save summary"}
RunFaults ==
    {"none", "missing file", "invalid file type", "processing", "temp write",
     "temp storage", "commit"}
        \cup SaveFaults
RequestFaults == {"none", "commit", "update workbook"}
NoFaults == {"none"}

\* the uploaded files that are in uploads_temp when the save named by the
\* fault raises
SavedBefore(fault) ==
    IF fault = "save drs" THEN {}
    ELSE IF fault = "save donor" THEN {"drs"}
    ELSE {"drs", "donor"}

\* the results for the session without the list of errors
serializable_results_for_session_no_errors(out, errors) ==
    [processed |-> out.results.processed,
     needs_review |-> out.results.needs_review,
     duplicates_db |-> out.results.duplicates_db,
     duplicates_sheet |-> out.results.duplicates_sheet,
     skipped_date_range |-> out.results.skipped_date_range,
     errors |-> <<>>,
     new_transactions_for_db_count |-> Len(out.new_transactions_for_db)]

serializable_results_for_session(out, errors) ==
    [processed |-> out.results.processed,
     needs_review |-> out.results.needs_review,
     duplicates_db |-> out.results.duplicates_db,
     duplicates_sheet |-> out.results.duplicates_sheet,
     skipped_date_range |-> out.results.skipped_date_range,
     errors |-> out.results.errors \o errors,
     new_transactions_for_db_count |-> Len(out.new_transactions_for_db)]

\* foundation_reconciliation when the results carry errors: they are
\* flashed, no temporary file is written, nothing is committed
ReportErrors(out) ==
    /\ session' = [PoppedSession EXCEPT
                      !.last_results = <<serializable_results_for_session(out, <<>>)>>]
    /\ flash' = <<"files uploaded", "processing error">>
    /\ UNCHANGED <<workbook, store>>

\* the table after a commit that keeps the new records although it raised
commit_or_rollback_kept(db, new_transactions, committed) == db \o new_transactions

\* db_session.add_all and commit, or rollback when the commit raises
commit_or_rollback(db, new_transactions, committed) ==
    IF committed THEN db \o new_transactions ELSE db

\* foundation_reconciliation when the results carry no error: the temporary
\* file is written and registered in the session, then the new records are
\* committed
Retain(out, stored, committed) ==
    /\ workbook' = IF stored = "processing complete" THEN out.workbook ELSE workbook
    /\ session' =
         [last_summary_temp_filename |->
              IF stored = "processing complete" THEN TempFilename ELSE PyNone,
          last_results |->
              <<serializable_results_for_session(out,
                    (IF stored = "error saving processed file"
                     THEN <<"Server error: Could not save processed file.">>
                     ELSE <<>>)
                    \o (IF out.new_transactions_for_db = <<>> \/ committed THEN <<>>
                        ELSE <<"DB Save Error">>))>>]
    /\ store' = commit_or_rollback(store, out.new_transactions_for_db, committed)
    /\ flash' = <<"files uploaded", stored>>
                \o (IF out.new_transactions_for_db = <<>> THEN <<>>
                    ELSE IF committed THEN <<"saved to history">>
                    ELSE <<"error saving transaction history">>)

\* what the request flashes about the temporary file
temp_file_outcome(fault) ==
    IF fault = "temp write" THEN "error saving processed file"
    ELSE IF fault = "temp storage" THEN "temp storage not available"
    ELSE "processing complete"

\* foundation_reconciliation after update_summary_file has returned; the
\* uploaded files are removed at the end
Finish(drs_file, donor_file, fault, out) ==
    /\ ledger' = drs_file.rows
    /\ donor' = donor_file.rows
    /\ transactions_by_ref' = out.transactions_by_ref
    /\ results' = out.results
    /\ upload_folder' = upload_folder
    /\ IF out.results.errors # <<>>
       THEN ReportErrors(out)
       ELSE Retain(out, temp_file_outcome(fault), fault # "commit")

\* foundation_reconciliation, POST of a valid form: the session keys are
\* popped first
Submit(drs_file, donor_file, summary_file, fault) ==
    IF fault \in {"missing file", "invalid file type"}
    THEN /\ session' = PoppedSession
         /\ flash' = <<fault>>
         /\ UNCHANGED <<ledger, donor, transactions_by_ref, workbook, results, store,
                        upload_folder>>
    ELSE IF fault \in SaveFaults
    THEN /\ session' = PoppedSession
         /\ flash' = <<"error during upload or processing">>
         /\ upload_folder' = upload_folder \cup SavedBefore(fault)
         /\ UNCHANGED <<ledger, donor, transactions_by_ref, workbook, results, store>>
    ELSE Finish(drs_file, donor_file, fault,
                IF fault = "processing"
                THEN ProcessingError("Unexpected error")
                ELSE update_summary_file_paths(drs_file, donor_file, summary_file,
                                               store, today))

\* foundation_reconciliation, POST with three valid files and no fault
Reconcile ==
    /\ runs < MaxRuns
    /\ \E drs_rows \in StringsUpTo(RowPool, MaxLines), donor_rows \in DonorPool :
         Submit(DrsFile(drs_rows), DonorFile(donor_rows), SummaryFile(workbook), "none")
    /\ runs' = runs + 1
    /\ UNCHANGED <<today, normVars, matchVars, sideVars>>

\* _update_temp_summary_after_review returns False without a file name in
\* the session, and when loading or saving the workbook raises
Updated(fault) == session.last_summary_temp_filename # PyNone /\ fault = "none"

\* foundation_review once the transaction is found to need review and the
\* assignment is committed: the temporary file is updated
Assign(transaction_id, club_name, reviewed, updated) ==
    /\ store' = [store EXCEPT ![transaction_id] = reviewed]
    /\ workbook' = IF updated
                   THEN update_temp_summary_after_review(workbook, reviewed, club_name,
                                                         today)
                   ELSE workbook
    /\ flash' = IF updated THEN <<"assigned", "summary updated">>
                ELSE <<"assigned", "could not update summary">>

\* a club id that no row of the clubs table has
Chess == <<"C", "h", "e", "s", "s">>
\* the club ids a review form can carry
ClubIds == ClubTable \cup {Chess}

\* the query of foundation_review for any transaction of that id
transaction_to_review_any(db, transaction_id) ==
    IF transaction_id \in DOMAIN db THEN <<db[transaction_id]>> ELSE <<>>

\* the query of foundation_review: the transaction of that id, if it needs review
transaction_to_review(db, transaction_id) ==
    IF transaction_id \in DOMAIN db /\ db[transaction_id].status = "needs_review"
    THEN <<db[transaction_id]>>
    ELSE <<>>

\* foundation_review, POST: transaction_id is a place in the table, or the place
\* after the last one, where no transaction is
ReviewUnder(faults) ==
    /\ \E transaction_id \in 1..(Len(store) + 1), club_name \in ClubIds, fault \in faults :
         \A found \in {transaction_to_review(store, transaction_id)} :
           IF found = <<>>
           THEN /\ flash' = <<"not found or already reviewed">>
                /\ UNCHANGED <<store, workbook>>
           ELSE IF club_name \notin ClubTable
           THEN /\ flash' = <<"club not found">>
                /\ UNCHANGED <<store, workbook>>
           ELSE IF fault = "commit"
           THEN /\ flash' = <<"error while assigning">>
                /\ UNCHANGED <<store, workbook>>
           ELSE Assign(transaction_id, club_name,
                       [found[1] EXCEPT
                           !.club_id = club_name,
                           !.assigned_club_name = club_name,
                           !.status = "reconciled"],
                       Updated(fault))
    /\ UNCHANGED <<ledger, donor, transactions_by_ref, results, today, runs, session,
                   upload_folder, normVars, matchVars, sideVars>>

Review == ReviewUnder(NoFaults)

\* a later day
Tick ==
    /\ today = Todays[1]
    /\ today' = Todays[2]
    /\ UNCHANGED <<ledger, donor, transactions_by_ref, workbook, results, store, flash,
                   runs, session, upload_folder, normVars, matchVars, sideVars>>

Next == Reconcile \/ Review \/ Tick

Spec == Init /\ [][Next]_vars

\* the club sheets and the Needs Review sheet of a workbook
LedgerSheets(wb) == DOMAIN wb.sheets \ {SUMMARY_INDIVIDUAL_SHEET_NAME}
RowsIn(wb, title) == IF title \in DOMAIN wb.sheets THEN wb.sheets[title] ELSE <<>>
RefsIn(wb, title) ==
    {normalize_jrnl_ref(RowsIn(wb, title)[r].ref) : r \in DOMAIN RowsIn(wb, title)}
\* the places of the rows that a step has appended to a sheet
AppendedTo(title) ==
    {r \in DOMAIN RowsIn(workbook', title) : r > Len(RowsIn(workbook, title))}
\* a step that is a run of the merger
IsRun == runs' = runs + 1

NoDuplicateRefs(wb) ==
    \A t \in LedgerSheets(wb) :
        \A i, j \in DOMAIN wb.sheets[t] :
            normalize_jrnl_ref(wb.sheets[t][i].ref) = normalize_jrnl_ref(wb.sheets[t][j].ref)
            => i = j

C5_NeverWrittenToAnotherSheet ==
    [][ IsRun =>
        \A t \in LedgerSheets(workbook') :
            \A r \in AppendedTo(t) :
                \A u \in LedgerSheets(workbook) \ {t} :
                    normalize_jrnl_ref(workbook'.sheets[t][r].ref) \notin RefsIn(workbook, u)
      ]_vars

\* the July 1 that starts the fiscal year of a day: the latest one not after it
FiscalYearStart(day) ==
    LET y == CHOOSE y \in (day[1] - 1) .. day[1] :
                 /\ DateLE(<<y, 7, 1>>, day)
                 /\ ~DateLE(<<y + 1, 7, 1>>, day)
    IN  <<y, 7, 1>>
RECURSIVE ColumnTotal(_, _, _)
ColumnTotal(rows, places, column) ==
    IF places = {} THEN 0
    ELSE LET r == CHOOSE r \in places : TRUE
         IN  rows[r][column] + ColumnTotal(rows, places \ {r}, column)
\* the Summary sheet shows, for every club, the contributions and the charges
\* of the rows of the club's sheet dated on or after the start of the fiscal
\* year of today, and of no other row
FiscalTotalsRight ==
    \A i \in DOMAIN workbook.summary :
        IsClubRow(workbook.summary[i]) =>
            \A rows \in {RowsIn(workbook, safe_sheet_name(Strip(workbook.summary[i].club)))} :
                \A in_year \in {{r \in DOMAIN rows :
                                    DateLE(FiscalYearStart(today), rows[r].date)}} :
                    /\ workbook.summary[i].contrib
                         = Num(ColumnTotal(rows, in_year, "contrib"))
                    /\ workbook.summary[i].charges
                         = Num(ColumnTotal(rows, in_year, "charges"))

\* C9: after a run and after a review has changed the workbook, the sums of
\* the Summary sheet include the rows dated July 1 of the start of the fiscal
\* year and later, and leave out the rows dated June 30 and earlier
C9_FiscalYearStartsJuly1 ==
    [][ workbook' # workbook => FiscalTotalsRight' ]_vars

\* the Judo Club sheet, filled by runs, and the Golf sheet, filled by
\* reviews, each hold a contribution of June 30 and one of July 1, and only
\* the one of July 1 is in the sums
C9_Witness ==
    /\ \E r, q \in DOMAIN RowsIn(workbook, JudoClub) :
          /\ workbook.sheets[JudoClub][r].date = June30
          /\ workbook.sheets[JudoClub][r].contrib = 5000
          /\ workbook.sheets[JudoClub][q].date = July1
          /\ workbook.sheets[JudoClub][q].contrib = 10000
    /\ \E r, q \in DOMAIN RowsIn(workbook, Golf) :
          /\ workbook.sheets[Golf][r].date = June30
          /\ workbook.sheets[Golf][r].contrib = 5000
          /\ workbook.sheets[Golf][q].date = July1
          /\ workbook.sheets[Golf][q].contrib = 10000
    /\ Len(workbook.sheets[Golf]) = 2
    /\ workbook.summary[1].contrib = Num(10000)
    /\ workbook.summary[2].contrib = Num(10000)
    /\ today = <<3, 6, 30>>
    /\ \A i \in DOMAIN store : store[i].club_id = Golf

\* the sheet the matcher sends an aggregated transaction to
MatchedSheet(data) ==
    LET club == find_matching_club_sheet(data.designation,
                                         clubs_from_summary(workbook.summary))
    IN  IF club = PyNone THEN NEEDS_REVIEW_SHEET_NAME ELSE safe_sheet_name(club)
\* the aggregated transactions of a run that their target sheet did not hold
NewTransactions ==
    {k \in DOMAIN transactions_by_ref' :
        transactions_by_ref'[k].nref
            \notin RefsIn(workbook, MatchedSheet(transactions_by_ref'[k]))}
\* the rows that a step has appended for a reference, as <<sheet, place>>
AppendedFor(normalized_ref) ==
    {tr \in UNION {{<<t, r>> : r \in AppendedTo(t)} : t \in LedgerSheets(workbook')} :
        normalize_jrnl_ref(workbook'.sheets[tr[1]][tr[2]].ref) = normalized_ref}

\* C10: a run appends each aggregated transaction that its target sheet did
\* not hold to that sheet and to no other club sheet or the Needs Review
\* sheet; the target is the sheet of the matched club, or the Needs Review
\* sheet with the original designation in the last column; processed counts
\* these transactions and needs_review those sent to the Needs Review sheet
C10_AppendedToExactlyOneSheet ==
    [][ IsRun =>
        /\ \A k \in NewTransactions :
             LET data == transactions_by_ref'[k]
                 target == MatchedSheet(data)
             IN  /\ Cardinality(AppendedFor(data.nref)) = 1
                 /\ \A tr \in AppendedFor(data.nref) :
                      /\ tr[1] = target
                      /\ target = NEEDS_REVIEW_SHEET_NAME
                           => workbook'.sheets[target][tr[2]].last = data.designation
        /\ results'.processed = Cardinality(NewTransactions)
        /\ results'.needs_review =
             Cardinality({k \in NewTransactions :
                 MatchedSheet(transactions_by_ref'[k]) = NEEDS_REVIEW_SHEET_NAME})
      ]_vars

\* one transaction goes to the Golf sheet, one to the Needs Review sheet with
\* its designation
C10_Witness ==
    /\ runs = 1
    /\ results.processed = 2
    /\ results.needs_review = 1
    /\ Len(RowsIn(workbook, Golf)) = 1
    /\ Len(RowsIn(workbook, NEEDS_REVIEW_SHEET_NAME)) = 1
    /\ workbook.sheets[NEEDS_REVIEW_SHEET_NAME][1].last = <<"P", "o", "l", "o">>
    /\ workbook.sheets[Golf][1].last = Golf

(***************************************************************************)
(* Specification of the requests with their failures: a reconciliation     *)
(* run on files that may lack their structure and with one of RunFaults,   *)
(* a review or a manual entry with one of RequestFaults, the download and  *)
(* the clearing of all data.  The summary file uploaded to a run is the    *)
(* workbook as the latest request left it, or OtherSummary.  A temporary   *)
(* file is removed by clear_all_review_data only.                          *)
(***************************************************************************)
MaxManual == 1

\* the two lines of reference 7: a contribution and a fee
TwoLines ==
    << [ref |-> <<"0", "7">>, type |-> "Contribution", amount |-> 10000, date |-> July1],
       [ref |-> <<"7">>,      type |-> "Fee",          amount |-> 500,   date |-> June30] >>

\* the donor report that gives reference 7 to the Judo Club
JudoDonors ==
    << [ref |-> <<"0", "7">>, date |-> June30, designation |-> JudoClub],
       [ref |-> <<"a", "7">>, date |-> July1, designation |-> JudoClub],
       [ref |-> <<"7">>, date |-> July1, designation |-> Golf] >>

\* a summary file kept elsewhere: its Needs Review sheet names reference 7
\* without the leading zero
OtherSummary ==
    [FirstSummaryFile EXCEPT
        !.sheets = (NEEDS_REVIEW_SHEET_NAME :>
                      << [date |-> July1, type |-> "Contribution", ref |-> <<"7">>,
                          contrib |-> 10000, charges |-> 500, net |-> 9500,
                          last |-> PyNone] >>)]

DrsUploads == {DrsWithoutHeader, DrsFile(TwoLines)}
DonorUploads == {DonorWithoutSheet, DonorFile(JudoDonors)}
SummaryUploads(wb) ==
    {SummaryFile(wb), SummaryFile(OtherSummary), SummaryWithoutSheet(wb),
     SummaryWithoutHeaders(wb)}

\* foundation_reconciliation, POST of a valid form
ReconcileRequest ==
    /\ runs < MaxRuns
    /\ \E drs_file \in DrsUploads, donor_file \in DonorUploads,
          summary_file \in SummaryUploads(workbook), fault \in RunFaults :
         Submit(drs_file, donor_file, summary_file, fault)
    /\ runs' = runs + 1
    /\ UNCHANGED <<today, normVars, matchVars, sideVars>>

ReviewRequest == ReviewUnder(RequestFaults)

\* foundation_manual_entry: the amounts of the record by transaction type
ManualDesignation(transaction_type) == <<"Manual Entry: ", transaction_type>>

gross_amt_db(transaction_type, amount) ==
    IF transaction_type = "Contribution" THEN amount ELSE 0

fees_total_db(transaction_type, amount) ==
    IF transaction_type = "Expense" THEN amount
    ELSE IF transaction_type = "Refund" THEN 0 - amount
    ELSE 0

new_db_transaction(transaction_type, transaction_date, journal_ref, amount, club_name) ==
    [transaction_date     |-> transaction_date,
     journal_ref          |-> journal_ref,
     original_designation |-> ManualDesignation(transaction_type),
     gross_amount         |-> gross_amt_db(transaction_type, amount),
     fees_total           |-> fees_total_db(transaction_type, amount),
     net_amount           |-> gross_amt_db(transaction_type, amount)
                              - fees_total_db(transaction_type, amount),
     assigned_club_name   |-> club_name,
     club_id              |-> club_name,
     status               |-> "reconciled"]

IsManual(record) == \E t \in {"Contribution", "Expense", "Refund"} :
                        record.original_designation = ManualDesignation(t)

\* foundation_manual_entry once the reference is found to be new and the
\* record is committed: the temporary file is updated
AddManual(record, club_name, updated) ==
    /\ store' = Append(store, record)
    /\ workbook' = IF updated
                   THEN update_temp_summary_after_review(workbook, record, club_name, today)
                   ELSE workbook
    /\ flash' = IF updated THEN <<"saved to database", "added to summary">>
                ELSE <<"saved to database", "could not update summary">>

\* foundation_manual_entry, POST of a valid form
ManualEntry ==
    /\ Cardinality({i \in DOMAIN store : IsManual(store[i])}) < MaxManual
    /\ \E transaction_type \in {"Contribution", "Expense", "Refund"},
          journal_ref \in {<<"0", "7">>, <<"m", "1">>}, amount \in {2500},
          club_name \in {JudoClub}, fault \in RequestFaults :
         IF session.last_summary_temp_filename = PyNone
         THEN /\ flash' = <<"no active summary file">>
              /\ UNCHANGED <<store, workbook>>
         ELSE IF \E i \in DOMAIN store : store[i].journal_ref = journal_ref
         THEN /\ flash' = <<"journal reference already exists">>
              /\ UNCHANGED <<store, workbook>>
         ELSE IF fault = "commit"
         THEN /\ flash' = <<"error saving manual entry">>
              /\ UNCHANGED <<store, workbook>>
         ELSE AddManual(new_db_transaction(transaction_type, today, journal_ref, amount,
                                           club_name),
                        club_name, Updated(fault))
    /\ UNCHANGED <<ledger, donor, transactions_by_ref, results, today, runs, session,
                   upload_folder, normVars, matchVars, sideVars>>

\* download_last_summary: the file is sent, or a warning is flashed
DownloadLastSummary ==
    /\ flash' = IF session.last_summary_temp_filename = PyNone
                THEN <<"no summary file available">>
                ELSE <<>>
    /\ UNCHANGED <<ledger, donor, transactions_by_ref, workbook, results, store, today,
                   runs, session, upload_folder, normVars, matchVars, sideVars>>

\* clear_all_review_data: every record is deleted, the session keys are
\* popped and the temporary file is removed
ClearAllReviewData ==
    /\ store' = <<>>
    /\ session' = PoppedSession
    /\ flash' = IF session.last_summary_temp_filename = PyNone
                THEN <<"records cleared", "no temporary file to clear">>
                ELSE <<"records cleared", "temporary file deleted">>
    /\ UNCHANGED <<ledger, donor, transactions_by_ref, workbook, results, today, runs,
                   upload_folder, normVars, matchVars, sideVars>>

NextRequests ==
    ReconcileRequest \/ ReviewRequest \/ ManualEntry \/ DownloadLastSummary
        \/ ClearAllReviewData

SpecRequests == Init /\ [][NextRequests]_vars

\* a step of a reconciliation request
IsRequestRun == runs' = runs + 1

StoreBalanced ==
    \A i \in DOMAIN store :
        store[i].net_amount = store[i].gross_amount - store[i].fees_total

\* the records that a step adds to the table
AddedRecords ==
    IF Len(store') > Len(store) THEN SubSeq(store', Len(store) + 1, Len(store')) ELSE <<>>

\* a record of a run carries the two totals of its aggregated transaction
TotalsKeptApart(record, txns) ==
    \E k \in DOMAIN txns :
        /\ txns[k].raw_jrnl_ref = record.journal_ref
        /\ record.gross_amount = total_contribution(txns[k])
        /\ record.fees_total = total_fees(txns[k])

AmountsKept ==
    \A i \in DOMAIN store \cap DOMAIN store' :
        /\ store'[i].gross_amount = store[i].gross_amount
        /\ store'[i].fees_total = store[i].fees_total
        /\ store'[i].net_amount = store[i].net_amount

\* C11: every record in the table has net_amount = gross_amount - fees_total;
\* a record that a run adds holds the contribution total and the fee total
\* of its aggregated transaction in gross_amount and fees_total; and no
\* request changes the three amounts of a record that stays in the table.
C11_AmountsBalancedAndKept ==
    /\ []StoreBalanced
    /\ [][/\ AmountsKept
          /\ IsRequestRun =>
                \A j \in DOMAIN AddedRecords :
                    TotalsKeptApart(AddedRecords[j], transactions_by_ref')]_vars

\* a record of a run with both totals that a review has assigned, next to
\* a manual refund
C11_Witness ==
    \E i, j \in DOMAIN store :
        /\ store[i].gross_amount > 0 /\ store[i].fees_total > 0
        /\ store[i].club_id # PyNone /\ ~IsManual(store[i])
        /\ IsManual(store[j]) /\ store[j].fees_total < 0

\* an uploaded file that lacks its structure
StructurallyInvalid(drs_file, donor_file, summary_file) ==
    \/ ~drs_file.header
    \/ ~donor_file.sheet
    \/ ~summary_file.summary_sheet
    \/ ~summary_file.headers

Aborted(out) == out.workbook = NoBuffer /\ out.results.errors # <<>>

\* C12: on uploads of which one lacks its structure (the DRS report its
\* header row, the donor report its sheet, the summary file its Summary
\* sheet or the six headers), update_summary_file returns no output buffer
\* and a list of errors that is not empty, so that no row is appended.
C12_InvalidInputAborts ==
    \A drs_file \in DrsUploads, donor_file \in DonorUploads,
       summary_file \in SummaryUploads(workbook) :
        StructurallyInvalid(drs_file, donor_file, summary_file) =>
            \A out \in {update_summary_file_paths(drs_file, donor_file, summary_file,
                                                  store, today)} : Aborted(out)

\* the temporary file of the session can be downloaded
Downloadable == session.last_summary_temp_filename # PyNone

\* the step assigns the record at place i
ReviewedNow(i) ==
    /\ i \in DOMAIN store'
    /\ store[i].status = "needs_review"
    /\ store'[i].status = "reconciled"

\* the sheets other than Needs Review and Summary Individual that hold a
\* row with the reference as written
ClubSheetsWith(wb, journal_ref) ==
    {title \in LedgerSheets(wb) \ {NEEDS_REVIEW_SHEET_NAME} :
        \E r \in DOMAIN wb.sheets[title] : wb.sheets[title][r].ref = journal_ref}

\* C13: a review assignment is all or nothing: whenever a request makes a
\* record reconciled, the temporary file of the session is changed by the
\* same request and then holds the row in a club sheet; a record is never
\* reconciled while the workbook stays as it was.
C13_ReviewAllOrNothing ==
    [][\A i \in DOMAIN store :
          ReviewedNow(i) =>
              /\ Downloadable
              /\ workbook' # workbook
              /\ ClubSheetsWith(workbook', store[i].journal_ref) # {}]_vars

\* the review request reports that the temporary file was updated
ReviewSucceeded == flash' = <<"assigned", "summary updated">>

\* C14: after a review that updated the temporary file, the Needs Review
\* sheet holds no row whose Journal Ref normalizes to the same value as the
\* reference of the reviewed record, whatever the case, the surrounding
\* whitespace and the leading zeros of the reference in the row.
C14_ReviewedRowLeavesNeedsReview ==
    [][\A i \in DOMAIN store :
          (ReviewedNow(i) /\ ReviewSucceeded) =>
              \A r \in DOMAIN RowsIn(workbook', NEEDS_REVIEW_SHEET_NAME) :
                  normalize_jrnl_ref(RowsIn(workbook', NEEDS_REVIEW_SHEET_NAME)[r].ref)
                      # normalize_jrnl_ref(store[i].journal_ref)]_vars

\* the Summary rows of a club
SummaryRowsOf(wb, club_name) ==
    {k \in DOMAIN wb.summary : Strip(wb.summary[k].club) = club_name}

\* C15: a review that updated the temporary file has appended the row to the
\* sheet that the merger uses for the assigned club and that the
\* recalculation of the Summary sheet reads, the one titled with the
\* sanitised club name, also for a name that ends in " Club"; for a record
\* dated in the fiscal year of today, the contributions and the charges of
\* the club in the Summary sheet then include the amounts of the record.
C15_ReviewAppendsToTheSheetOfTheClub ==
    [][\A i \in DOMAIN store :
          (ReviewedNow(i) /\ ReviewSucceeded) =>
              /\ \E r \in AppendedTo(safe_sheet_name(store'[i].club_id)) :
                    RowsIn(workbook', safe_sheet_name(store'[i].club_id))[r].ref
                        = store[i].journal_ref
              /\ DateLE(FiscalYearStart(today), store[i].transaction_date) =>
                    \A k \in SummaryRowsOf(workbook', store'[i].club_id) :
                        /\ to_decimal(workbook'.summary[k].contrib)
                               >= store[i].gross_amount
                        /\ to_decimal(workbook'.summary[k].charges)
                               >= store[i].fees_total]_vars

\* the places of the rows of a ledger dated inside the window of the dates
\* of a donor report that has rows
InsideWindow(rows, donor_rows) ==
    {i \in DOMAIN rows :
        \E a, b \in DOMAIN donor_rows :
            DateLE(donor_rows[a].date, rows[i].date) /\ DateLE(rows[i].date, donor_rows[b].date)}

LinesInside(rows, donor_rows, normalized_ref, line_type) ==
    {i \in InsideWindow(rows, donor_rows) :
        /\ normalize_jrnl_ref(rows[i].ref) = normalized_ref
        /\ rows[i].type = line_type}

RECURSIVE AmountAt(_, _)
AmountAt(rows, places) ==
    IF places = {} THEN 0
    ELSE LET i == CHOOSE i \in places : TRUE
         IN  rows[i].amount + AmountAt(rows, places \ {i})

\* the aggregated transaction holds the lines inside the window, and no other
OnlyLinesInside(data, rows, donor_rows) ==
    /\ total_contribution(data)
         = AmountAt(rows, LinesInside(rows, donor_rows, data.nref, "Contribution"))
    /\ total_fees(data) = AmountAt(rows, LinesInside(rows, donor_rows, data.nref, "Fee"))
    /\ \E i \in InsideWindow(rows, donor_rows) : rows[i].date = data.date

\* the row is the row of one of the aggregated transactions
RowOfSome(row, txns) ==
    \E k \in DOMAIN txns :
        /\ row.ref = txns[k].raw_jrnl_ref
        /\ row.date = txns[k].date
        /\ row.contrib = total_contribution(txns[k])
        /\ row.charges = total_fees(txns[k])

\* C16: in a run whose donor report gives a date window, the aggregated
\* transactions hold the ledger lines dated inside the window only, also
\* for a reference that has lines on both sides of it; every row that the
\* run writes to a sheet and every record that it adds to the table is
\* that of an aggregated transaction and carries its totals.
C16_OutsideWindowLeavesNoTrace ==
    [][(IsRun /\ donor' # <<>>) =>
          /\ \A k \in DOMAIN transactions_by_ref' :
                OnlyLinesInside(transactions_by_ref'[k], ledger', donor')
          /\ \A title \in LedgerSheets(workbook') :
                \A r \in AppendedTo(title) :
                    RowOfSome(RowsIn(workbook', title)[r], transactions_by_ref')
          /\ \A r \in DOMAIN RowsIn(workbook', SUMMARY_INDIVIDUAL_SHEET_NAME) :
                RowOfSome(RowsIn(workbook', SUMMARY_INDIVIDUAL_SHEET_NAME)[r],
                          transactions_by_ref')
          /\ \A j \in DOMAIN AddedRecords :
                TotalsKeptApart(AddedRecords[j], transactions_by_ref')]_vars

\* a run on a contribution of reference 7 inside the window and a fee of the
\* same reference outside it: the row of the Needs Review sheet has no charges
C16_Witness ==
    /\ runs > 0
    /\ Len(donor) = 1
    /\ Len(ledger) = 2
    /\ ledger[1].date = July1 /\ ledger[2].date = June30
    /\ normalize_jrnl_ref(ledger[1].ref) = normalize_jrnl_ref(ledger[2].ref)
    /\ ledger[2].type = "Fee"
    /\ \E r \in DOMAIN RowsIn(workbook, NEEDS_REVIEW_SHEET_NAME) :
          /\ RowsIn(workbook, NEEDS_REVIEW_SHEET_NAME)[r].contrib = 10000
          /\ RowsIn(workbook, NEEDS_REVIEW_SHEET_NAME)[r].charges = 0
    /\ \E i \in DOMAIN store : store[i].gross_amount = 10000 /\ store[i].fees_total = 0

\* the normalised references of the ledger lines dated outside the window
RefsOutside(rows, donor_rows) ==
    {normalize_jrnl_ref(rows[i].ref) : i \in DOMAIN rows \ InsideWindow(rows, donor_rows)}

\* C17: in a run whose donor report gives a date window, skipped_date_range
\* is at most the number of distinct normalised references of the ledger
\* lines dated outside the window: lines with one reference count once.
C17_SkippedOncePerReference ==
    [][(IsRun /\ donor' # <<>>) =>
          results'.skipped_date_range <= Cardinality(RefsOutside(ledger', donor'))]_vars

\* the run reports that the commit of its new records failed
CommitFailed ==
    /\ IsRequestRun
    /\ Len(flash') = 3
    /\ flash'[3] = "error saving transaction history"

\* the workbook is the output of update_summary_file for the reports of the
\* run and one of the summary files that can be uploaded
IsOutputOfRun ==
    \E summary_file \in SummaryUploads(workbook) :
        \A out \in {update_summary_file_paths(DrsFile(ledger'), DonorFile(donor'),
                                              summary_file, store, today)} :
            out.results.errors = <<>> /\ workbook' = out.workbook

\* C18: when the commit of the new records of a run fails, the table is as
\* it was before the run, the temporary file registered in the session
\* holds the workbook that update_summary_file returned and can be
\* downloaded, and the results of the run carry the error "DB Save Error".
C18_FailedCommitKeepsArtifact ==
    [][CommitFailed =>
          /\ store' = store
          /\ session'.last_summary_temp_filename = TempFilename
          /\ IsOutputOfRun
          /\ \E e \in DOMAIN session'.last_results[1].errors :
                session'.last_results[1].errors[e] = "DB Save Error"]_vars

\* after a failed commit: a row in Needs Review, no record in the table
C18_Witness ==
    /\ flash = <<"files uploaded", "processing complete",
                 "error saving transaction history">>
    /\ store = <<>>
    /\ Downloadable
    /\ Len(RowsIn(workbook, NEEDS_REVIEW_SHEET_NAME)) = 1
    /\ session.last_results[1].new_transactions_for_db_count = 1

\* a step of clear_all_review_data
IsClear == flash' # <<>> /\ Head(flash') = "records cleared"

\* C19: once a temporary file is registered for download, it stays so
\* through every later request but the clearing of all data, also through
\* a later reconciliation request that fails.
C19_ArtifactStaysDownloadable ==
    [][(Downloadable /\ ~IsClear) => Downloadable']_vars

\* C20: when a reconciliation request returns, whatever its exit path, none
\* of the uploaded files it wrote to uploads_temp is left there.
C20_UploadsRemoved ==
    [][IsRequestRun => upload_folder' \subseteq upload_folder]_vars

\* the results that the request left in the session carry an error
ResultsCarryError(sess) ==
    sess.last_results # <<>> /\ sess.last_results[1].errors # <<>>

\* outcome one: a temporary file is registered, with the results of the run
ArtifactWithResults(sess) ==
    sess.last_summary_temp_filename # PyNone /\ sess.last_results # <<>>

\* the request was turned down before processing, with a flashed message
Rejected(messages) ==
    messages \in {<<"missing file">>, <<"invalid file type">>,
                  <<"error during upload or processing">>}

\* a run whose processing reports an error registers no file and commits
\* nothing
ErrorsStopTheRun ==
    (IsRequestRun /\ ResultsCarryError(session') /\ results'.errors # <<>>) =>
        /\ session'.last_summary_temp_filename = PyNone
        /\ store' = store

\* C21 as stated: after a reconciliation request either a temporary file
\* is registered together with results, or none is registered and the
\* results carry at least one error; and a run whose processing reports an
\* error registers no file and commits no record.
C21_ArtifactOrErrorInResults ==
    [][/\ IsRequestRun =>
             \/ ArtifactWithResults(session')
             \/ session'.last_summary_temp_filename = PyNone
                  /\ ResultsCarryError(session')
       /\ ErrorsStopTheRun]_vars

\* C21: after a reconciliation request either a temporary file is
\* registered together with results, or none is registered and an error is
\* reported: in the results when update_summary_file ran and the file could
\* not be written, by a flashed message alone when the request was turned
\* down before processing or when the folder of the temporary files is not
\* available; and a run whose processing reports an error registers no
\* file and commits no record.
C21_ArtifactOrErrorReported ==
    [][/\ IsRequestRun =>
             \/ ArtifactWithResults(session')
             \/ /\ session'.last_summary_temp_filename = PyNone
                /\ \/ ResultsCarryError(session')
                   \/ session'.last_results = <<>> /\ Rejected(flash')
                   \/ /\ session'.last_results # <<>>
                      /\ flash'[2] = "temp storage not available"
       /\ ErrorsStopTheRun]_vars

\* after a run on a summary file without its sheet: the error is in the
\* results, no file is registered, no record is stored
C21_Witness ==
    /\ runs > 0
    /\ flash = <<"files uploaded", "processing error">>
    /\ ResultsCarryError(session)
    /\ ~Downloadable
    /\ store = <<>>

\* ---- persisted entries: creation and status ----

\* a step in which a review request was turned down
ReviewTurnedDown == flash' \in {<<"not found or already reviewed">>, <<"club not found">>}
\* a step in which a review request assigned a club
ReviewAssigned == Len(flash') = 2 /\ flash'[1] = "assigned"
\* the entry at place i is one that the step has left as it was
EntryKept(i) == i \in DOMAIN store' /\ store'[i] = store[i]
\* the entry at place i went from needs_review to reconciled with a club of the table
EntryReviewed(i) ==
    /\ i \in DOMAIN store'
    /\ store[i].status = "needs_review"
    /\ store'[i].status = "reconciled"
    /\ store'[i].assigned_club_name \in ClubTable
    /\ store'[i].journal_ref = store[i].journal_ref
\* no two entries of a table carry the same journal reference
OncePerReference(db) ==
    \A i \in DOMAIN db : \A j \in DOMAIN db : db[i].journal_ref = db[j].journal_ref => i = j

\* C22: the store never holds two entries of one journal reference; an entry
\* changes only when a review request takes it from needs_review to reconciled
\* with a club of the table (or when the whole table is cleared); a review
\* request that is turned down leaves store and workbook as they were; a run
\* leaves every entry that exists as it was.
C22_EntriesCreatedOnceReviewedOnce ==
    [][/\ OncePerReference(store')
       /\ store' = <<>> \/ \A i \in DOMAIN store :
                               \/ EntryKept(i)
                               \/ ReviewAssigned /\ EntryReviewed(i)
       /\ ReviewTurnedDown => store' = store /\ workbook' = workbook
       /\ IsRequestRun => \A i \in DOMAIN store : EntryKept(i)]_vars

\* a run has stored an entry that needs review, a review has reconciled it, and
\* a later review request names it again or names a club outside the table
C22_Witness ==
    /\ \E i \in DOMAIN store : /\ store[i].status = "reconciled"
                                /\ store[i].club_id \in ClubTable
    /\ flash \in {<<"not found or already reviewed">>, <<"club not found">>}
    /\ runs > 0

\* ---- the Summary Individual sheet after a run ----

\* the club sheets of a workbook
ClubSheets(wb) == LedgerSheets(wb) \ {NEEDS_REVIEW_SHEET_NAME}
\* the rows of the club sheets that carry a normalised reference
ClubRowsOf(wb, nref) ==
    UNION {{<<title, r>> : r \in {q \in DOMAIN RowsIn(wb, title) :
                                    normalize_jrnl_ref(RowsIn(wb, title)[q].ref) = nref}} :
           title \in ClubSheets(wb)}
\* the rows of the Summary Individual sheet that carry a normalised reference
IndividualRowsOf(wb, nref) ==
    {r \in DOMAIN RowsIn(wb, SUMMARY_INDIVIDUAL_SHEET_NAME) :
        normalize_jrnl_ref(RowsIn(wb, SUMMARY_INDIVIDUAL_SHEET_NAME)[r].ref) = nref}
\* the normalised references of the club sheets and of Summary Individual
ReconciledRefs(wb) ==
    UNION {RefsIn(wb, title) : title \in ClubSheets(wb) \cup {SUMMARY_INDIVIDUAL_SHEET_NAME}}
\* rows in the order of date, then club name
InKeyOrder(rows) ==
    \A r \in DOMAIN rows : r < Len(rows) => SortKeyLE(rows[r], rows[r + 1])

\* C23: after every run, Summary Individual holds exactly one row for each row
\* of the club sheets, rows of earlier runs included, ordered by date and then
\* by club name.
C23_SummaryIndividualHoldsEveryClubRow ==
    [][IsRun =>
          /\ \A nref \in ReconciledRefs(workbook') :
                Cardinality(IndividualRowsOf(workbook', nref))
                    = Cardinality(ClubRowsOf(workbook', nref))
          /\ InKeyOrder(RowsIn(workbook', SUMMARY_INDIVIDUAL_SHEET_NAME))]_vars

(***************************************************************************)
(* Requests that update the temporary file side by side.  After one run,   *)
(* review requests are served by several workers: each commits its         *)
(* assignment, loads the temporary file, changes the workbook in memory    *)
(* and saves it, and the steps of two requests may interleave.  The        *)
(* requests name different transactions, since the commit of the first     *)
(* takes a transaction out of the reach of the query of the second.        *)
(***************************************************************************)
MaxWriters == 2

\* the run before the review requests
RunBeforeWriters ==
    /\ runs = 0
    /\ Reconcile

\* foundation_review up to its commit; the temporary file is not yet loaded
WriterBegin ==
    /\ runs = 1
    /\ session.last_summary_temp_filename # PyNone
    /\ \E w \in (1..MaxWriters) \ DOMAIN writers, transaction_id \in DOMAIN store,
          club_name \in ClubTable :
         \A found \in {transaction_to_review(store, transaction_id)} :
           /\ found # <<>>
           /\ store' = [store EXCEPT ![transaction_id] =
                           [found[1] EXCEPT !.club_id = club_name,
                                            !.assigned_club_name = club_name,
                                            !.status = "reconciled"]]
           /\ writers' = (w :> [pc |-> "committed",
                                reviewed_transaction |-> store'[transaction_id],
                                club_name |-> club_name,
                                workbook |-> NoBuffer]) @@ writers
    /\ UNCHANGED <<ledger, donor, transactions_by_ref, workbook, results, today, flash,
                   runs, session, upload_folder, normVars, matchVars, drs_df_raw,
                   drs_lines>>

\* openpyxl.load_workbook(temp_filepath)
WriterLoad ==
    /\ \E w \in DOMAIN writers :
         /\ writers[w].pc = "committed"
         /\ writers' = [writers EXCEPT ![w].pc = "loaded", ![w].workbook = workbook]
    /\ UNCHANGED <<runVars, normVars, matchVars, drs_df_raw, drs_lines>>

\* the workbook that a request saves is the one it loaded, unchanged
saved_workbook_as_loaded(loaded, reviewed_transaction, club_name, today_date) == loaded

\* the workbook that a request saves: the one it loaded, with its changes
saved_workbook(loaded, reviewed_transaction, club_name, today_date) ==
    update_temp_summary_after_review(loaded, reviewed_transaction, club_name, today_date)

\* workbook.save(temp_filepath), and the message of success
WriterSave ==
    /\ \E w \in DOMAIN writers :
         /\ writers[w].pc = "loaded"
         /\ workbook' = saved_workbook(writers[w].workbook, writers[w].reviewed_transaction,
                                       writers[w].club_name, today)
         /\ writers' = [writers EXCEPT ![w].pc = "summary updated"]
    /\ flash' = <<"assigned", "summary updated">>
    /\ UNCHANGED <<ledger, donor, transactions_by_ref, results, store, today, runs,
                   session, upload_folder, normVars, matchVars, drs_df_raw, drs_lines>>

NextWriters == RunBeforeWriters \/ WriterBegin \/ WriterLoad \/ WriterSave

SpecWriters == Init /\ [][NextWriters]_vars

\* the sheet of the club a request has assigned holds the row of its transaction
ChangeSaved(wb, w) ==
    normalize_jrnl_ref(writers[w].reviewed_transaction.journal_ref)
        \in RefsIn(wb, safe_club_sheet_name(writers[w].club_name))
\* the step is the save of request w, and no other request has saved since w
\* loaded the file
SavesAlone(w) ==
    /\ writers[w].pc = "loaded"
    /\ writers'[w].pc = "summary updated"
    /\ writers[w].workbook = workbook

\* C24: when a request saves the temporary file and no other request has saved
\* it since this one loaded it (one writer at a time), the saved workbook holds
\* the row of the request and every row the club sheets held before the save.
\* (That two interleaved requests lose a change is the state of C24_Witness.)
C24_SingleWriterLosesNothing ==
    [][\A w \in DOMAIN writers :
          SavesAlone(w) =>
             /\ ChangeSaved(workbook', w)
             /\ \A title \in ClubSheets(workbook) :
                   RefsIn(workbook, title) \subseteq RefsIn(workbook', title)]_vars

\* two requests loaded the file before either saved it; both have reported
\* success and the saved workbook lacks the row of one of them
C24_Witness ==
    /\ DOMAIN writers = {1, 2}
    /\ \A w \in DOMAIN writers : writers[w].pc = "summary updated"
    /\ \E w \in DOMAIN writers : ~ChangeSaved(workbook, w)
    /\ \E w \in DOMAIN writers : ChangeSaved(workbook, w)

(***************************************************************************)
(* The scan of the DRS sheet (Step 5 of update_summary_file), row by row:  *)
(* section banners, blank rows, total rows, the grand total row and data   *)
(* rows, and the conversion of the debit and credit cells.  A row is the   *)
(* first cell of the sheet row (a text, or NaN), the post date and the     *)
(* journal reference as lines 321-355 extract them, and the debit and      *)
(* credit cells as texts (str(value) of line 66), or NaN.  The rows are    *)
(* the ones below the header row; the donor report gives no date window.   *)
(***************************************************************************)
MaxSheetRows == 4

\* pandas' NaN, the value of an empty cell
NaN == <<"nan">>

TARGET_SECTIONS ==
    { <<"c", "o", "n", "t", "r", "i", "b", "u", "t", "i", "o", "n", "s", " ", "-", " ", "c", "a", "s", "h">>,
      <<"c", "o", "n", "t", "r", "i", "b", "u", "t", "i", "o", "n", "s", " ", "-", " ", "n", "o", "n", " ", "c", "a", "s", "h">>,
      <<"s", "e", "r", "v", "i", "c", "e", "s", " ", "-", " ", "b", "a", "n", "k", "/", "c", "r", "e", "d", "i", "t", " ", "c", "a", "r", "d", " ", "f", "e", "e", "s">>,
      <<"s", "e", "r", "v", "i", "c", "e", "s", " ", "-", " ", "c", "c", " ", "p", "l", "a", "t", "f", "o", "r", "m", " ", "p", "r", "o", "c", "e", "s", "s", "i", "n", "g", " ", "f", "e", "e", "s">>,
      <<"t", "r", "a", "n", "s", "f", "e", "r", " ", "o", "u", "t", " ", "-", " ", "a", "d", "m", "i", "n", "i", "s", "t", "r", "a", "t", "i", "v", "e", " ", "g", "i", "f", "t", " ", "f", "e", "e">> }

\* the sections of SECTION_TO_TYPE by the type they are mapped to
ContributionSections ==
    { <<"c", "o", "n", "t", "r", "i", "b", "u", "t", "i", "o", "n", "s", " ", "-", " ", "c", "a", "s", "h">>,
      <<"c", "o", "n", "t", "r", "i", "b", "u", "t", "i", "o", "n", "s", " ", "-", " ", "n", "o", "n", " ", "c", "a", "s", "h">> }
FeeSections ==
    { <<"s", "e", "r", "v", "i", "c", "e", "s", " ", "-", " ", "b", "a", "n", "k", "/", "c", "r", "e", "d", "i", "t", " ", "c", "a", "r", "d", " ", "f", "e", "e", "s">>,
      <<"s", "e", "r", "v", "i", "c", "e", "s", " ", "-", " ", "c", "c", " ", "p", "l", "a", "t", "f", "o", "r", "m", " ", "p", "r", "o", "c", "e", "s", "s", "i", "n", "g", " ", "f", "e", "e", "s">>,
      <<"t", "r", "a", "n", "s", "f", "e", "r", " ", "o", "u", "t", " ", "-", " ", "a", "d", "m", "i", "n", "i", "s", "t", "r", "a", "t", "i", "v", "e", " ", "g", "i", "f", "t", " ", "f", "e", "e">> }

\* SECTION_TO_TYPE.get(section)
SECTION_TO_TYPE(section) ==
    IF section \in ContributionSections THEN "Contribution"
    ELSE IF section \in FeeSections THEN "Fee"
    ELSE "None"

\* str.startswith and the operator in of two strings
StartsWith(text, prefix) ==
    Len(text) >= Len(prefix) /\ SubSeq(text, 1, Len(prefix)) = prefix
Contains(text, part) ==
    \E p \in 1..(Len(text) - Len(part) + 1) : SubSeq(text, p, p + Len(part) - 1) = part

\* the length of the run of characters other than whitespace at the start
RECURSIVE NonSpaceRun(_)
NonSpaceRun(s) == IF s = <<>> \/ IsSpace(Head(s)) THEN 0 ELSE 1 + NonSpaceRun(Tail(s))

\* (.*?)\)?$ : the rest of the text without one closing parenthesis at its end
LazyGroup(rest) ==
    IF rest # <<>> /\ rest[Len(rest)] = ")" THEN SubSeq(rest, 1, Len(rest) - 1) ELSE rest

\* re.match(r"Account:\s*\S+\s*\((.*?)\)?$", first_cell_value): group 1 in a
\* sequence of one text, or the empty sequence when the text does not match
AccountMatch(first_cell_value) ==
    LET rest  == LStrip(SubSeq(first_cell_value, 9, Len(first_cell_value)))
        n     == NonSpaceRun(rest)
        after == LStrip(SubSeq(rest, n + 1, Len(rest)))
        ks    == {k \in 1..(n - 1) : rest[k + 1] = "("}
    IN  IF n >= 1 /\ after # <<>> /\ Head(after) = "("
        THEN <<LazyGroup(Tail(after))>>
        ELSE IF ks # {}
        THEN <<LazyGroup(SubSeq(rest, (CHOOSE k \in ks : \A j \in ks : j <= k) + 2,
                                Len(rest)))>>
        ELSE <<>>

\* first_cell_value.split(":", 1)[-1]
AfterColon(text) ==
    IF \E p \in DOMAIN text : text[p] = ":"
    THEN SubSeq(text, (CHOOSE p \in DOMAIN text :
                          text[p] = ":" /\ \A q \in 1..(p - 1) : text[q] # ":") + 1,
                Len(text))
    ELSE text

potential_section_name(first_cell_value) ==
    IF AccountMatch(first_cell_value) # <<>>
    THEN Lower(Strip(AccountMatch(first_cell_value)[1]))
    ELSE Lower(Strip(AfterColon(first_cell_value)))

\* the first cell of a row, stripped; None for NaN and for an empty text
first_cell_value(row) == IF row.first = NaN THEN PyNone ELSE Strip(row.first)
has_first_cell(row) == first_cell_value(row) # PyNone /\ first_cell_value(row) # <<>>

is_blank_row(row) ==
    /\ row.first = NaN /\ row.date = NaN /\ row.ref = NaN
    /\ row.debit = NaN /\ row.credit = NaN
is_grand_total_row(row) ==
    has_first_cell(row) /\ Contains(Lower(first_cell_value(row)), <<"g", "r", "a", "n", "d", " ", "t", "o", "t", "a", "l">>)
is_total_row(row) ==
    /\ has_first_cell(row)
    /\ Contains(Lower(first_cell_value(row)), <<"t", "o", "t", "a", "l">>)
    /\ ~Contains(Lower(first_cell_value(row)), <<"g", "r", "a", "n", "d", " ", "t", "o", "t", "a", "l">>)
is_section_header_row(row) ==
    has_first_cell(row) /\ StartsWith(first_cell_value(row), <<"A", "c", "c", "o", "u", "n", "t", ":">>)

\* str(value) with "," and ")" removed and "(" replaced by "-"
RECURSIVE cleaned_value(_)
cleaned_value(text) ==
    IF text = <<>> THEN <<>>
    ELSE IF Head(text) \in {",", ")"} THEN cleaned_value(Tail(text))
    ELSE IF Head(text) = "(" THEN <<"-">> \o cleaned_value(Tail(text))
    ELSE <<Head(text)>> \o cleaned_value(Tail(text))

\* a run of one or more digits
AllDigits(s) == s # <<>> /\ \A i \in DOMAIN s : IsDigit(s[i])
\* the place of the decimal point, 0 when there is none
PointOf(s) == IF \E p \in DOMAIN s : s[p] = "." THEN CHOOSE p \in DOMAIN s : s[p] = "." ELSE 0
\* re.match(r'^-?\d+(\.\d+)?$', cleaned_value), for the text after the sign
IsUnsignedDecimal(s) ==
    IF PointOf(s) = 0 THEN AllDigits(s)
    ELSE AllDigits(SubSeq(s, 1, PointOf(s) - 1)) /\ AllDigits(SubSeq(s, PointOf(s) + 1, Len(s)))
WithoutMinus(s) == IF s # <<>> /\ Head(s) = "-" THEN Tail(s) ELSE s
IsDecimal(s) == IsUnsignedDecimal(WithoutMinus(s))

\* the number a run of digits writes
DigitValue(c) == (CHOOSE i \in DOMAIN DigitChars : DigitChars[i] = c) - 1
RECURSIVE DigitsValue(_)
DigitsValue(s) ==
    IF s = <<>> THEN 0 ELSE 10 * DigitsValue(SubSeq(s, 1, Len(s) - 1)) + DigitValue(s[Len(s)])
\* Decimal(text) in cents, for a text with at most two digits after the point
UnsignedCents(s) ==
    IF PointOf(s) = 0 THEN 100 * DigitsValue(s)
    ELSE LET fraction == SubSeq(s, PointOf(s) + 1, Len(s))
         IN  100 * DigitsValue(SubSeq(s, 1, PointOf(s) - 1))
               + (IF Len(fraction) = 1 THEN 10 * DigitsValue(fraction)
                  ELSE DigitsValue(SubSeq(fraction, 1, 2)))
Cents(s) == IF s # <<>> /\ Head(s) = "-" THEN 0 - UnsignedCents(Tail(s)) ELSE UnsignedCents(s)

Abs(n) == IF n < 0 THEN 0 - n ELSE n

\* to_decimal of a cell of the DRS sheet, in cents
to_decimal_cell(value, make_positive) ==
    IF value = NaN \/ Strip(value) = <<>> THEN 0
    ELSE IF ~IsDecimal(cleaned_value(value)) THEN 0
    ELSE IF make_positive THEN Abs(Cents(cleaned_value(value)))
    ELSE Cents(cleaned_value(value))

\* the scan before the first row
ScanStart ==
    [in_target_section |-> FALSE, current_section_name |-> PyNone, stopped |-> FALSE,
     lines |-> <<>>]

\* a banner: the section it names becomes the current one if it is a target
EnterSection(acc, potential) ==
    IF potential \in TARGET_SECTIONS
    THEN [acc EXCEPT !.in_target_section = TRUE, !.current_section_name = potential]
    ELSE [acc EXCEPT !.in_target_section = FALSE, !.current_section_name = PyNone]

\* a blank row, a total row or the grand total row that leaves the section open
SkipRow_open(acc, row) ==
    [acc EXCEPT !.stopped = is_grand_total_row(row)]

\* a blank row, a total row or the grand total row: the section ends, and the
\* grand total row ends the scan
SkipRow(acc, row) ==
    [acc EXCEPT !.in_target_section = FALSE,
                !.current_section_name = PyNone,
                !.stopped = is_grand_total_row(row)]

\* the line type of a section as the scan of a data row uses it
line_type_contribution(section) == "Contribution"

line_type(section) == SECTION_TO_TYPE(section)

\* "Process Data Row": the line of a row with a date and a reference, unless
\* its amount is zero
DataRow(acc, row, index, kind, debit_val, credit_val) ==
    IF row.date = NaN \/ row.ref = NaN \/ normalize_jrnl_ref(row.ref) = <<>> THEN acc
    ELSE IF (IF kind = "Contribution" THEN credit_val ELSE debit_val) = 0 THEN acc
    ELSE [acc EXCEPT !.lines = Append(@, [row    |-> index,
                                         type   |-> kind,
                                         amount |-> IF kind = "Contribution"
                                                    THEN credit_val ELSE debit_val])]

\* one turn of the loop over the rows
SheetRow(acc, row, index) ==
    IF acc.stopped THEN acc
    ELSE IF is_section_header_row(row)
    THEN EnterSection(acc, potential_section_name(first_cell_value(row)))
    ELSE IF is_blank_row(row) \/ is_total_row(row) \/ is_grand_total_row(row)
    THEN SkipRow(acc, row)
    ELSE IF ~acc.in_target_section \/ acc.current_section_name = PyNone THEN acc
    ELSE DataRow(acc, row, index, line_type(acc.current_section_name),
                 to_decimal_cell(row.debit, FALSE), to_decimal_cell(row.credit, TRUE))

RECURSIVE SheetRows(_, _, _)
SheetRows(acc, rows, index) ==
    IF index > Len(rows) THEN acc
    ELSE SheetRows(SheetRow(acc, rows[index], index), rows, index + 1)

\* the banners, the rows without data and the data rows of the sheets scanned
BannerRow(text) == [first |-> text, date |-> NaN, ref |-> NaN, debit |-> NaN, credit |-> NaN]
DataRowOf(debit, credit) ==
    [first |-> NaN, date |-> July1, ref |-> <<"a", "7">>, debit |-> debit, credit |-> credit]
SheetRowPool ==
    { BannerRow(<<"A", "c", "c", "o", "u", "n", "t", ":", " ", "4", "1", " ", "(", "C", "o", "n", "t", "r", "i", "b", "u", "t", "i", "o", "n", "s", " ", "-", " ", "C", "a", "s", "h", ")">>),
      BannerRow(<<"A", "c", "c", "o", "u", "n", "t", ":", " ", "5", "2", " ", "(", "S", "e", "r", "v", "i", "c", "e", "s", " ", "-", " ", "B", "a", "n", "k", "/", "C", "r", "e", "d", "i", "t", " ", "C", "a", "r", "d", " ", "F", "e", "e", "s", ")">>),
      BannerRow(<<"A", "c", "c", "o", "u", "n", "t", ":", " ", "6", "0", " ", "(", "P", "l", "e", "d", "g", "e", "s", ")">>),
      BannerRow(NaN),
      BannerRow(<<"T", "o", "t", "a", "l", " ", "f", "o", "r", " ", "4", "1">>),
      BannerRow(<<"G", "r", "a", "n", "d", " ", "T", "o", "t", "a", "l">>),
      DataRowOf(NaN, <<"5">>),
      DataRowOf(<<"2", ".", "5">>, NaN),
      DataRowOf(<<"(", "5", ")">>, <<"(", "5", ")">>),
      DataRowOf(<<"-", "5">>, <<"-", "5">>),
      DataRowOf(<<"0">>, <<"0", ".", "0", "0">>),
      DataRowOf(<<"n", "/", "a">>, <<"1", ",", "0", "0", "5">>) }

ScanInit ==
    /\ drs_df_raw \in StringsUpTo(SheetRowPool, MaxSheetRows)
    /\ drs_lines = NotScanned
    /\ writers = <<>>
    /\ ledger = <<>> /\ donor = <<>> /\ transactions_by_ref = <<>> /\ workbook = <<>>
    /\ results = <<>> /\ store = <<>> /\ today = <<>> /\ flash = <<>> /\ runs = 0
    /\ session = <<>> /\ upload_folder = {}
    /\ refIn = PyNone /\ refOut = Pending
    /\ designation_text = PyNone /\ club_names_from_summary = <<>> /\ matched_club = Pending

ScanSheet ==
    /\ ~drs_lines.scanned
    /\ drs_lines' = [scanned |-> TRUE, lines |-> SheetRows(ScanStart, drs_df_raw, 1).lines]
    /\ UNCHANGED <<drs_df_raw, writers, normVars, matchVars, runVars>>

SpecScan == ScanInit /\ [][ScanSheet]_vars

\* the rows of the sheet by what the scan takes them for
IsBanner(i) == is_section_header_row(drs_df_raw[i])
IsGrandTotal(i) == ~IsBanner(i) /\ is_grand_total_row(drs_df_raw[i])
IsBlankOrTotal(i) ==
    ~IsBanner(i) /\ (is_blank_row(drs_df_raw[i]) \/ is_total_row(drs_df_raw[i]))
\* the section that the banner of row b names
SectionAt(b) == potential_section_name(first_cell_value(drs_df_raw[b]))
\* the place of the most recent banner before row i, 0 when there is none
LastBannerBefore(i) ==
    IF \E b \in 1..(i - 1) : IsBanner(b)
    THEN CHOOSE b \in 1..(i - 1) : IsBanner(b) /\ \A c \in (b + 1)..(i - 1) : ~IsBanner(c)
    ELSE 0
\* row i is under a banner that names a target section, with no grand total
\* row before it
UnderTargetBanner(i) ==
    /\ LastBannerBefore(i) > 0
    /\ SectionAt(LastBannerBefore(i)) \in TARGET_SECTIONS
    /\ \A g \in 1..(i - 1) : ~IsGrandTotal(g)
\* the type that the section of the banner above row i is mapped to
TypeMappedAt(i, kind) ==
    \/ kind = "Contribution" /\ SectionAt(LastBannerBefore(i)) \in ContributionSections
    \/ kind = "Fee" /\ SectionAt(LastBannerBefore(i)) \in FeeSections
\* the lines that the scan has kept of row i
LinesOfRow(i) == {k \in DOMAIN drs_lines.lines : drs_lines.lines[k].row = i}

\* C25: every line comes from a row whose most recent banner names a target
\* section, with no grand total row before it, and has the type that the
\* section is mapped to; so no line follows an unrecognized banner before the
\* next recognized one, and none follows the grand total row.
C25_LinesOnlyUnderTargetBanners ==
    drs_lines.scanned =>
        \A k \in DOMAIN drs_lines.lines :
            /\ drs_lines.lines[k].row \in DOMAIN drs_df_raw
            /\ UnderTargetBanner(drs_lines.lines[k].row)
            /\ TypeMappedAt(drs_lines.lines[k].row, drs_lines.lines[k].type)

\* a fee banner, a data row with a debit of 2.5 and the grand total row: one
\* Fee line, of the second row
C25_Witness ==
    /\ Len(drs_df_raw) = 3
    /\ IsBanner(1) /\ SectionAt(1) \in FeeSections
    /\ IsGrandTotal(3)
    /\ drs_lines.scanned
    /\ Len(drs_lines.lines) = 1 /\ drs_lines.lines[1].row = 2 /\ drs_lines.lines[1].type = "Fee"
    /\ drs_lines.lines[1].amount = 250

\* a data row with a date, a reference and an amount other than zero in the
\* column of its section
IsDataRow(i) ==
    /\ ~IsBanner(i) /\ ~IsGrandTotal(i) /\ ~IsBlankOrTotal(i)
    /\ drs_df_raw[i].date # NaN /\ drs_df_raw[i].ref # NaN
ValidDataRow(i) ==
    /\ IsDataRow(i)
    /\ UnderTargetBanner(i)
    /\ IF SectionAt(LastBannerBefore(i)) \in ContributionSections
       THEN to_decimal_cell(drs_df_raw[i].credit, TRUE) # 0
       ELSE to_decimal_cell(drs_df_raw[i].debit, FALSE) # 0
\* a blank row or a total row lies between row i and the banner above it
AfterBlankOrTotal(i) ==
    \E s \in (LastBannerBefore(i) + 1)..(i - 1) : IsBlankOrTotal(s)

\* C26: a valid data row that follows a blank row or a total row under the
\* same recognized banner is still converted to a line.
C26_BlankAndTotalRowsKeepTheSection ==
    drs_lines.scanned =>
        \A i \in DOMAIN drs_df_raw :
            (ValidDataRow(i) /\ AfterBlankOrTotal(i)) => LinesOfRow(i) # {}

\* C26, as the code has it: a blank row or a total row gives no line and ends
\* the section; a valid data row gives a line exactly when no blank row and no
\* total row lies between it and the recognized banner above it.
C26_BlankAndTotalRowsEndTheSection ==
    drs_lines.scanned =>
        /\ \A i \in DOMAIN drs_df_raw : IsBlankOrTotal(i) => LinesOfRow(i) = {}
        /\ \A i \in DOMAIN drs_df_raw :
              ValidDataRow(i) => (LinesOfRow(i) # {} <=> ~AfterBlankOrTotal(i))

\* a contribution banner, a blank row and a valid data row: no line
C26_Witness ==
    /\ Len(drs_df_raw) = 3
    /\ IsBanner(1) /\ SectionAt(1) \in ContributionSections
    /\ is_blank_row(drs_df_raw[2])
    /\ ValidDataRow(3)
    /\ drs_lines.lines = <<>>
    /\ drs_lines.scanned

\* C27: every line that the scan keeps has an amount above zero.
C27_LineAmountsArePositive ==
    drs_lines.scanned => \A k \in DOMAIN drs_lines.lines : drs_lines.lines[k].amount > 0

\* ---- the recalculation of the Summary sheet ----

\* what the recalculation is to leave of a Summary row: rollover and expenses
\* as they were, remaining computed from them and from the sums of the period
RowRecalculated(old, new) ==
    /\ new.club = old.club
    /\ new.rollover = old.rollover
    /\ new.expenses = old.expenses
    /\ new.remaining = Num(to_decimal(old.rollover) + to_decimal(new.contrib)
                           - to_decimal(new.charges) - to_decimal(old.expenses))

\* C28: a step that recalculates the Summary sheet (a run, or a review that
\* updates the temporary file) leaves the rollover and expenses cells of every
\* club row as they were, sets remaining to rollover + contribution - charges
\* - expenses, and does not change the grand total row.
C28_RecalculationKeepsRolloverAndExpenses ==
    [][(IsRun \/ workbook'.summary # workbook.summary) =>
          /\ DOMAIN workbook'.summary = DOMAIN workbook.summary
          /\ \A i \in DOMAIN workbook.summary :
                IF IsClubRow(workbook.summary[i])
                THEN RowRecalculated(workbook.summary[i], workbook'.summary[i])
                ELSE workbook'.summary[i] = workbook.summary[i]]_vars

\* ---- one place for each reference ----

\* C29: after any runs and reviews, no normalised reference is in two sheets
\* among the Needs Review sheet and the club sheets.
C29_OnePlacePerReference ==
    \A t \in LedgerSheets(workbook) :
        \A u \in LedgerSheets(workbook) \ {t} :
            RefsIn(workbook, t) \cap RefsIn(workbook, u) = {}

(***************************************************************************)
(* Runs, reviews and clear-all requests without faults: every run is       *)
(* processed and committed, every review updates the temporary file.       *)
(***************************************************************************)
NextCleared == Reconcile \/ Review \/ ClearAllReviewData

SpecCleared == Init /\ [][NextCleared]_vars

\* the entries of the store that the review page lists for a reference
ReviewableFor(db, nref) ==
    {i \in DOMAIN db : /\ normalize_jrnl_ref(db[i].journal_ref) = nref
                        /\ db[i].status = "needs_review"}

\* C30: after a run, every row of the Needs Review sheet has an entry of the
\* store with its normalised reference and the status needs_review.
C30_NeedsReviewRowsAreReviewable ==
    [][IsRun =>
          \A nref \in RefsIn(workbook', NEEDS_REVIEW_SHEET_NAME) :
              ReviewableFor(store', nref) # {}]_vars
====
